---- MODULE Spec2Model ----
(***************************************************************************)
(* A model of the step-resolution engine of va-ai: the canonicalizer       *)
(* (normalize_step), the two step libraries (validate.StepLibrary and      *)
(* search_steps.StepsLibrary), the lexical matcher (difflib's              *)
(* SequenceMatcher.ratio), the step parser and the semantic matcher.       *)
(*                                                                         *)
(* Text is modelled character by character: a string is a sequence of      *)
(* Unicode code points (Cyrillic "к" is 1082, the double quote is 34), so  *)
(* that substring tests, regular expressions and the similarity ratio are  *)
(* computed as the code computes them.  Every literal tuple is followed by *)
(* a comment showing the text it encodes.                                  *)
(***************************************************************************)
EXTENDS Naturals, Integers, Sequences, FiniteSets, TLC

VARIABLES
    \* --- canonicalizer runs (specification SpecNorm)
    n_raw,              \* the input of normalize_step, as the list of its fragments
    n_once,             \* normalize_step(n_raw)
    n_twice,            \* normalize_step(normalize_step(n_raw))
    n_pc,               \* "input" | "once" | "twice"
    \* --- libraries, resolution and search (specification Spec)
    source,             \* the parsed JSON of the library file: [shape, data]
    exited,             \* the tool ended by sys.exit(1)
    v_loaded,           \* validate.StepLibrary constructed (load_library ran)
    enable_semantic,    \* StepLibrary.enable_semantic
    steps,              \* StepLibrary.steps: list of template texts
    steps_normalized,   \* StepLibrary.steps_normalized: ordered dict, as a list of [key, value]
    s_loaded,           \* search_steps.StepsLibrary constructed
    s_steps,            \* StepsLibrary.steps: list of step_info records
    s_steps_normalized, \* StepsLibrary.steps_normalized: ordered dict, as a list of [key, value]
    indexes_loaded,     \* StepsSearcher.indexes_loaded
    category_index,     \* StepsSearcher.category_index: list of [key, value] (value: list of positions)
    call,               \* the last resolution or search call and what it returned
    \* --- semantic comparison (specification SpecSem)
    m_original,         \* compare's original_step, as the list of its words
    m_suggested,        \* compare's suggested_step
    m_match,            \* the SemanticMatch compare returned
    m_level,            \* get_confidence_level(m_match.confidence)
    m_pc,               \* "input" | "compared"
    \* --- concurrent calls on one loaded library (specification SpecConc)
    t_pc,               \* per worker thread: "idle" | "lookup" | "scan" | "rank" | "done"
    t_call,             \* per worker thread: the call it runs, its loop position, its result
    t_frame,            \* per call frame: the local list the call's loop appends to
    \* --- validation of feature files (specification SpecFile)
    f_lines,            \* the feature file being written: the list of its lines
    f_read,             \* how many lines validate_file has read so far, over all its calls
    v_ai_enhanced,      \* ScenarioValidator.ai_enhanced
    v_logger,           \* ScenarioValidator.logger is set (a MetricsLogger is configured)
    v_stats,            \* ScenarioValidator.stats
    v_errors,           \* ScenarioValidator.errors
    v_log,              \* the metrics log file: the events log_event appended, in order
    \* --- waiting for the external processor (specification SpecWait)
    w_timeout,          \* wait_for_completion's timeout, in seconds
    w_now,              \* time.time() - start_time, in ticks of half a second
    w_markers,          \* the marker files that exist: "processing", "completed", "error"
    w_marked_at,        \* w_now when the processor wrote .completed or .error; -1 before
    w_pc,               \* wait_for_completion's position
    w_wake,             \* when the time.sleep under way ends
    w_status,           \* what wait_for_completion returned
    w_exit              \* what run_agent_mode returned

normVars == <<n_raw, n_once, n_twice, n_pc>>
lexVars  == <<source, exited, v_loaded, enable_semantic, steps, steps_normalized, s_loaded, s_steps,
              s_steps_normalized, indexes_loaded, category_index, call>>
semVars  == <<m_original, m_suggested, m_match, m_level, m_pc>>
concVars == <<t_pc, t_call, t_frame>>
fileVars == <<f_lines, f_read, v_ai_enhanced, v_logger, v_stats, v_errors, v_log>>
waitVars == <<w_timeout, w_now, w_markers, w_marked_at, w_pc, w_wake, w_status, w_exit>>
vars     == <<normVars, lexVars, semVars, concVars, fileVars, waitVars>>

\* What the actions of one specification leave alone: the other specifications' state.
normOthers == <<lexVars, semVars, concVars, fileVars, waitVars>>
lexOthers  == <<normVars, semVars, concVars, fileVars, waitVars>>
semOthers  == <<normVars, lexVars, concVars, fileVars, waitVars>>
concOthers == <<normVars, semVars, fileVars, waitVars>>
fileOthers == <<normVars, lexVars, semVars, concVars, waitVars>>
waitOthers == <<normVars, lexVars, semVars, concVars, fileVars>>

(* Characters and the string primitives of Python the code relies on.      *)

\* str.isspace / the regex class \s, over the characters the model uses
\* (tab, LF, VT, FF, CR, FS..US, space, NEL, NBSP).
IsSpace(c) == c \in {9, 10, 11, 12, 13, 28, 29, 30, 31, 32, 133, 160}

\* the regex class \d (ASCII digits are the only digits of the model's alphabet)
IsDigit(c) == c \in 48..57

\* the regex class \w: letters (Latin, Cyrillic), digits and the underscore
IsWordChar(c) ==
    \/ c \in 48..57 \/ c \in 65..90 \/ c \in 97..122 \/ c = 95
    \/ c \in 1024..1119

\* str.lower on one code point: Latin A-Z, Cyrillic U+0400..U+042F
LowerChar(c) ==
    IF c \in 65..90 THEN c + 32
    ELSE IF c \in 1040..1071 THEN c + 32
    ELSE IF c \in 1024..1039 THEN c + 80
    ELSE c

\* str.lower
Lower(s) == [i \in 1..Len(s) |-> LowerChar(s[i])]

\* s[i:] of Python, with 1-based i
From(s, i) == IF i > Len(s) THEN <<>> ELSE SubSeq(s, i, Len(s))

\* the first index >= i at which s holds c, or 0
RECURSIVE IndexOf(_, _, _)
IndexOf(s, c, i) ==
    IF i > Len(s) THEN 0
    ELSE IF s[i] = c THEN i
    ELSE IndexOf(s, c, i + 1)

\* str.split('\n')[0]
FirstLine(s) ==
    LET nl == IndexOf(s, 10, 1)
    IN  IF nl = 0 THEN s ELSE SubSeq(s, 1, nl - 1)

\* the index of the first non-space character at or after i (Len(s) + 1 if none)
RECURSIVE SkipSpaces(_, _)
SkipSpaces(s, i) ==
    IF i > Len(s) THEN i
    ELSE IF IsSpace(s[i]) THEN SkipSpaces(s, i + 1)
    ELSE i

\* the index of the last non-space character at or before i (0 if none)
RECURSIVE SkipSpacesBack(_, _)
SkipSpacesBack(s, i) ==
    IF i < 1 THEN 0
    ELSE IF IsSpace(s[i]) THEN SkipSpacesBack(s, i - 1)
    ELSE i

\* str.strip
Strip(s) ==
    LET lo == SkipSpaces(s, 1)
        hi == SkipSpacesBack(s, Len(s))
    IN  IF lo > hi THEN <<>> ELSE SubSeq(s, lo, hi)

\* s.startswith(p), at 1-based offset i
StartsWithAt(s, p, i) ==
    /\ i + Len(p) - 1 <= Len(s)
    /\ \A k \in 1..Len(p) : s[i + k - 1] = p[k]

\* p in s (substring test)
Contains(s, p) == \E i \in 1..(Len(s) - Len(p) + 1) : StartsWithAt(s, p, i)

\* str.split(): the first whitespace-delimited token, <<>> if there is none
FirstWord(s) ==
    LET lo == SkipSpaces(s, 1)
        RECURSIVE WordEnd(_)
        WordEnd(i) == IF i > Len(s) \/ IsSpace(s[i]) THEN i - 1 ELSE WordEnd(i + 1)
    IN  IF lo > Len(s) THEN <<>> ELSE SubSeq(s, lo, WordEnd(lo))

\* the concatenation of a list of strings
RECURSIVE Concat(_)
Concat(ss) == IF ss = <<>> THEN <<>> ELSE Head(ss) \o Concat(Tail(ss))

\* str(n) for a natural number
RECURSIVE Decimal(_)
Decimal(n) == IF n < 10 THEN <<48 + n>> ELSE Decimal(n \div 10) \o <<48 + (n % 10)>>

(* The canonicalizer: StepLibrary.normalize_step of validate.py, repeated   *)
(* line for line as StepsLibrary.normalize_step in search_steps.py.         *)

\* the alternation of the keyword regex, in its order
KEYWORDS == <<
    <<1044, 1072, 1085, 1086>> (* Дано *),
    <<1050, 1086, 1075, 1076, 1072>> (* Когда *),
    <<1058, 1086, 1075, 1076, 1072>> (* Тогда *),
    <<1048>> (* И *),
    <<1058, 1072, 1082, 1078, 1077>> (* Также *),
    <<1047, 1072, 1090, 1077, 1084>> (* Затем *),
    <<1053, 1086>> (* Но *) >>

\* the keyword starts s, ignoring case, and whitespace follows it
KeywordMatches(s, kw) ==
    /\ Len(s) > Len(kw)
    /\ \A k \in 1..Len(kw) : LowerChar(s[k]) = LowerChar(kw[k])
    /\ IsSpace(s[Len(kw) + 1])

\* re.sub(r'^(Дано|Когда|Тогда|И|Также|Затем|Но)\s+', '', s, flags=re.IGNORECASE)
StripKeyword(s) ==
    IF \E n \in 1..Len(KEYWORDS) : KeywordMatches(s, KEYWORDS[n])
    THEN LET n == CHOOSE n \in 1..Len(KEYWORDS) :
                      /\ KeywordMatches(s, KEYWORDS[n])
                      /\ \A m \in 1..(n - 1) : ~KeywordMatches(s, KEYWORDS[m])
         IN  From(s, SkipSpaces(s, Len(KEYWORDS[n]) + 1))
    ELSE s

\* if step.endswith(':'): step = step[:-1].strip()
StripColon(s) ==
    IF Len(s) > 0 /\ s[Len(s)] = 58 THEN Strip(SubSeq(s, 1, Len(s) - 1)) ELSE s

LITERAL_PLACEHOLDER == <<34, 123, 125, 34>> (* "{}" *)
VARIABLE_PLACEHOLDER == <<36, 123, 125, 36>> (* ${}$ *)
NUMBER_PLACEHOLDER == <<35>> (* # *)

\* re.sub of q[^q]*q by '"{}"' for a quote character q: leftmost, non-overlapping
RECURSIVE SubQuoted(_, _, _)
SubQuoted(s, q, i) ==
    IF i > Len(s) THEN <<>>
    ELSE LET close == IF s[i] = q THEN IndexOf(s, q, i + 1) ELSE 0
         IN  IF close # 0
             THEN LITERAL_PLACEHOLDER \o SubQuoted(s, q, close + 1)
             ELSE <<s[i]>> \o SubQuoted(s, q, i + 1)

\* step.replace('\\"', '"')
RECURSIVE Unescape(_, _)
Unescape(s, i) ==
    IF i > Len(s) THEN <<>>
    ELSE IF s[i] = 92 /\ i < Len(s) /\ s[i + 1] = 34
         THEN <<34>> \o Unescape(s, i + 2)
         ELSE <<s[i]>> \o Unescape(s, i + 1)

\* re.sub(r'\$[^$]+\$', '${}$', s)
RECURSIVE SubVariables(_, _)
SubVariables(s, i) ==
    IF i > Len(s) THEN <<>>
    ELSE LET close == IF s[i] = 36 THEN IndexOf(s, 36, i + 1) ELSE 0
         IN  IF close >= i + 2
             THEN VARIABLE_PLACEHOLDER \o SubVariables(s, close + 1)
             ELSE <<s[i]>> \o SubVariables(s, i + 1)

\* the index after the run of digits that starts at i
RECURSIVE DigitsEnd(_, _)
DigitsEnd(s, i) == IF i <= Len(s) /\ IsDigit(s[i]) THEN DigitsEnd(s, i + 1) ELSE i

\* re.sub(r'\b\d+\b', '#', s): a run of digits with no word character on either side
RECURSIVE SubNumbers(_, _)
SubNumbers(s, i) ==
    IF i > Len(s) THEN <<>>
    ELSE LET e == DigitsEnd(s, i)
         IN  IF /\ IsDigit(s[i])
                /\ (i = 1 \/ ~IsWordChar(s[i - 1]))
                /\ (e > Len(s) \/ ~IsWordChar(s[e]))
             THEN NUMBER_PLACEHOLDER \o SubNumbers(s, e)
             ELSE <<s[i]>> \o SubNumbers(s, i + 1)

\* re.sub(r'\s+', ' ', s)
RECURSIVE CollapseSpaces(_, _)
CollapseSpaces(s, i) ==
    IF i > Len(s) THEN <<>>
    ELSE IF IsSpace(s[i]) THEN <<32>> \o CollapseSpaces(s, SkipSpaces(s, i))
    ELSE <<s[i]>> \o CollapseSpaces(s, i + 1)

\* A normalize_step that leaves quoted literals in place.
normalize_step_keepliterals(step) ==
    LET first_line == Strip(FirstLine(step))
        s2 == StripColon(Lower(StripKeyword(first_line)))
        s4 == SubNumbers(SubVariables(Unescape(s2, 1), 1), 1)
    IN  Strip(CollapseSpaces(s4, 1))

\* StepLibrary.normalize_step / StepsLibrary.normalize_step
normalize_step(step) ==
    LET first_line == Strip(FirstLine(step))
        s1 == StripKeyword(first_line)
        s2 == StripColon(Lower(s1))
        s3 == SubQuoted(SubQuoted(s2, 34, 1), 39, 1)
        s4 == Unescape(s3, 1)
        s5 == SubVariables(s4, 1)
        s6 == SubNumbers(s5, 1)
    IN  Strip(CollapseSpaces(s6, 1))

(* The feature extractor: StepParser of step_parser.py.                     *)

\* StepParser.ACTIONS (ACTIONS is a reserved word of TLA+): an ordered dict, category -> trigger phrases
StepParser_ACTIONS == <<
    [category |-> <<1082, 1083, 1080, 1082>> (* клик *),
     phrases  |-> << <<1085, 1072, 1078, 1080, 1084, 1072, 1102>> (* нажимаю *), <<1082, 1083, 1080, 1082, 1072, 1102>> (* кликаю *), <<1097, 1077, 1083, 1082, 1072, 1102>> (* щелкаю *), <<1074, 1099, 1073, 1080, 1088, 1072, 1102>> (* выбираю *) >>],
    [category |-> <<1074, 1074, 1086, 1076>> (* ввод *),
     phrases  |-> << <<1074, 1074, 1086, 1078, 1091>> (* ввожу *), <<1091, 1089, 1090, 1072, 1085, 1072, 1074, 1083, 1080, 1074, 1072, 1102>> (* устанавливаю *), <<1079, 1072, 1076, 1072, 1102>> (* задаю *), <<1079, 1072, 1087, 1086, 1083, 1085, 1103, 1102>> (* заполняю *) >>],
    [category |-> <<1074, 1099, 1073, 1086, 1088>> (* выбор *),
     phrases  |-> << <<1074, 1099, 1073, 1080, 1088, 1072, 1102, 32, 1080, 1079>> (* выбираю из *), <<1074, 1099, 1073, 1080, 1088, 1072, 1102, 32, 1087, 1086>> (* выбираю по *), <<1074, 1099, 1073, 1080, 1088, 1072, 1102, 32, 1090, 1086, 1095, 1085, 1086, 1077>> (* выбираю точное *) >>],
    [category |-> <<1087, 1088, 1086, 1074, 1077, 1088, 1082, 1072>> (* проверка *),
     phrases  |-> << <<1087, 1088, 1086, 1074, 1077, 1088, 1103, 1102>> (* проверяю *), <<1089, 1088, 1072, 1074, 1085, 1080, 1074, 1072, 1102>> (* сравниваю *), <<1091, 1073, 1077, 1078, 1076, 1072, 1102, 1089, 1100>> (* убеждаюсь *), <<1078, 1076, 1091>> (* жду *) >>],
    [category |-> <<1085, 1072, 1074, 1080, 1075, 1072, 1094, 1080, 1103>> (* навигация *),
     phrases  |-> << <<1086, 1090, 1082, 1088, 1099, 1074, 1072, 1102>> (* открываю *), <<1087, 1077, 1088, 1077, 1093, 1086, 1078, 1091>> (* перехожу *), <<1079, 1072, 1082, 1088, 1099, 1074, 1072, 1102>> (* закрываю *), <<1072, 1082, 1090, 1080, 1074, 1080, 1079, 1080, 1088, 1091, 1102>> (* активизирую *) >>] >>

\* StepParser.ELEMENTS: an ordered dict, category -> trigger phrases
ELEMENTS == <<
    [category |-> <<1082, 1085, 1086, 1087, 1086, 1095, 1085, 1099, 1077>> (* кнопочные *),
     phrases  |-> << <<1082, 1085, 1086, 1087, 1082, 1072>> (* кнопка *), <<1082, 1085, 1086, 1087, 1082, 1072, 32, 1089, 32, 1080, 1084, 1077, 1085, 1077, 1084>> (* кнопка с именем *), <<1082, 1085, 1086, 1087, 1082, 1072, 32, 1082, 1086, 1084, 1072, 1085, 1076, 1085, 1086, 1075, 1086, 32, 1080, 1085, 1090, 1077, 1088, 1092, 1077, 1081, 1089, 1072>> (* кнопка командного интерфейса *),
                     <<1082, 1085, 1086, 1087, 1082, 1072, 32, 1074, 1099, 1073, 1086, 1088, 1072>> (* кнопка выбора *), <<1082, 1085, 1086, 1087, 1082, 1091>> (* кнопку *) >>],
    [category |-> <<1087, 1086, 1083, 1103>> (* поля *),
     phrases  |-> << <<1087, 1086, 1083, 1077>> (* поле *), <<1087, 1086, 1083, 1077, 32, 1089, 32, 1080, 1084, 1077, 1085, 1077, 1084>> (* поле с именем *), <<1087, 1086, 1083, 1077, 32, 1074, 1074, 1086, 1076, 1072>> (* поле ввода *), <<1087, 1086, 1083, 1103>> (* поля *) >>],
    [category |-> <<1089, 1087, 1080, 1089, 1082, 1080>> (* списки *),
     phrases  |-> << <<1074, 1099, 1087, 1072, 1076, 1072, 1102, 1097, 1080, 1081, 32, 1089, 1087, 1080, 1089, 1086, 1082>> (* выпадающий список *), <<1074, 1099, 1087, 1072, 1076, 1072, 1102, 1097, 1077, 1075, 1086, 32, 1089, 1087, 1080, 1089, 1082, 1072>> (* выпадающего списка *), <<1089, 1087, 1080, 1089, 1086, 1082>> (* список *), <<1076, 1077, 1088, 1077, 1074, 1086>> (* дерево *) >>],
    [category |-> <<1089, 1089, 1099, 1083, 1082, 1080>> (* ссылки *),
     phrases  |-> << <<1075, 1080, 1087, 1077, 1088, 1089, 1089, 1099, 1083, 1082, 1072>> (* гиперссылка *), <<1075, 1080, 1087, 1077, 1088, 1089, 1089, 1099, 1083, 1082, 1091>> (* гиперссылку *), <<1085, 1072, 1074, 1080, 1075, 1072, 1094, 1080, 1086, 1085, 1085, 1072, 1103, 32, 1089, 1089, 1099, 1083, 1082, 1072>> (* навигационная ссылка *),
                     <<1085, 1072, 1074, 1080, 1075, 1072, 1094, 1080, 1086, 1085, 1085, 1091, 1102, 32, 1089, 1089, 1099, 1083, 1082, 1091>> (* навигационную ссылку *) >>],
    [category |-> <<1090, 1072, 1073, 1083, 1080, 1094, 1099>> (* таблицы *),
     phrases  |-> << <<1090, 1072, 1073, 1083, 1080, 1094, 1072>> (* таблица *), <<1090, 1072, 1073, 1083, 1080, 1094, 1077>> (* таблице *), <<1090, 1072, 1073, 1083, 1080, 1095, 1085, 1072, 1103, 32, 1095, 1072, 1089, 1090, 1100>> (* табличная часть *), <<1090, 1072, 1073, 1083, 1080, 1095, 1085, 1086, 1081, 32, 1095, 1072, 1089, 1090, 1080>> (* табличной части *) >>],
    [category |-> <<1092, 1086, 1088, 1084, 1099>> (* формы *),
     phrases  |-> << <<1092, 1086, 1088, 1084, 1072>> (* форма *), <<1092, 1086, 1088, 1084, 1077>> (* форме *), <<1086, 1082, 1085, 1086>> (* окно *), <<1087, 1072, 1085, 1077, 1083, 1100>> (* панель *), <<1075, 1088, 1091, 1087, 1087, 1072>> (* группа *) >>] >>

\* StepParser.CONTEXTS
CONTEXTS == <<
    <<1074, 32, 1090, 1072, 1073, 1083, 1080, 1094, 1077>> (* в таблице *), <<1074, 32, 1090, 1072, 1073, 1083, 1080, 1095, 1085, 1086, 1081, 32, 1095, 1072, 1089, 1090, 1080>> (* в табличной части *),
    <<1074, 32, 1092, 1086, 1088, 1084, 1077>> (* в форме *), <<1074, 32, 1086, 1082, 1085, 1077>> (* в окне *),
    <<1074, 32, 1076, 1077, 1088, 1077, 1074, 1077>> (* в дереве *),
    <<1074, 32, 1087, 1072, 1085, 1077, 1083, 1080>> (* в панели *), <<1074, 32, 1075, 1088, 1091, 1087, 1087, 1077>> (* в группе *) >>

UNKNOWN == <<117, 110, 107, 110, 111, 119, 110>> (* unknown *)

\* the stop-words of the first-word fallback of _extract_action
ACTION_STOP_WORDS == { <<1103>> (* я *), <<1074>> (* в *), <<1080, 1079>> (* из *), <<1091>> (* у *) }

\* the cells of an ordered table: <<category index, phrase index>>
Cells(table) ==
    UNION { { <<c, k>> : k \in 1..Len(table[c].phrases) } : c \in 1..Len(table) }

\* the first hit of a scan "for category, phrases in table: for phrase in phrases":
\* the first of the cells in hits, categories in table order and phrases in list
\* order; <<0, 0>> if there is none
FirstCell(hits) ==
    IF hits = {} THEN <<0, 0>>
    ELSE CHOOSE p \in hits :
             \A q \in hits : p[1] < q[1] \/ (p[1] = q[1] /\ p[2] <= q[2])

\* An _extract_action whose first-word fallback knows no stop-words.
extract_action_without_stop_words(step) ==
    LET hit == FirstCell({ p \in Cells(StepParser_ACTIONS) :
                               Contains(step, StepParser_ACTIONS[p[1]].phrases[p[2]]) })
    IN  IF hit # <<0, 0>> THEN StepParser_ACTIONS[hit[1]].phrases[hit[2]]
        ELSE FirstWord(step)

\* StepParser._extract_action
extract_action(step) ==
    LET hit == FirstCell({ p \in Cells(StepParser_ACTIONS) :
                               Contains(step, StepParser_ACTIONS[p[1]].phrases[p[2]]) })
        word == FirstWord(step)
    IN  IF hit # <<0, 0>> THEN StepParser_ACTIONS[hit[1]].phrases[hit[2]]
        ELSE IF word # <<>> /\ word \notin ACTION_STOP_WORDS THEN word
        ELSE <<>>

\* the base form _extract_element_type returns for a category of ELEMENTS
ElementBaseForm(category, step) ==
    IF category = <<1082, 1085, 1086, 1087, 1086, 1095, 1085, 1099, 1077>> (* кнопочные *) THEN <<1082, 1085, 1086, 1087, 1082, 1072>> (* кнопка *)
    ELSE IF category = <<1087, 1086, 1083, 1103>> (* поля *) THEN <<1087, 1086, 1083, 1077>> (* поле *)
    ELSE IF category = <<1089, 1087, 1080, 1089, 1082, 1080>> (* списки *)
         THEN IF Contains(step, <<1074, 1099, 1087, 1072, 1076, 1072, 1102, 1097, 1080, 1081>> (* выпадающий *)) \/ Contains(step, <<1074, 1099, 1087, 1072, 1076, 1072, 1102, 1097, 1077, 1075, 1086>> (* выпадающего *))
              THEN <<1074, 1099, 1087, 1072, 1076, 1072, 1102, 1097, 1080, 1081, 32, 1089, 1087, 1080, 1089, 1086, 1082>> (* выпадающий список *)
              ELSE <<1089, 1087, 1080, 1089, 1086, 1082>> (* список *)
    ELSE IF category = <<1089, 1089, 1099, 1083, 1082, 1080>> (* ссылки *) THEN <<1075, 1080, 1087, 1077, 1088, 1089, 1089, 1099, 1083, 1082, 1072>> (* гиперссылка *)
    ELSE IF category = <<1090, 1072, 1073, 1083, 1080, 1094, 1099>> (* таблицы *) THEN <<1090, 1072, 1073, 1083, 1080, 1094, 1072>> (* таблица *)
    ELSE <<1092, 1086, 1088, 1084, 1072>> (* форма *)

\* An _extract_element_type that returns the trigger phrase it found.
extract_element_type_literal(step) ==
    LET hit == FirstCell({ p \in Cells(ELEMENTS) :
                               Contains(step, ELEMENTS[p[1]].phrases[p[2]]) })
    IN  IF hit = <<0, 0>> THEN <<>>
        ELSE ELEMENTS[hit[1]].phrases[hit[2]]

\* StepParser._extract_element_type
extract_element_type(step) ==
    LET hit == FirstCell({ p \in Cells(ELEMENTS) :
                               Contains(step, ELEMENTS[p[1]].phrases[p[2]]) })
    IN  IF hit = <<0, 0>> THEN <<>>
        ELSE ElementBaseForm(ELEMENTS[hit[1]].category, step)

\* StepParser._extract_context
extract_context(step) ==
    LET hits == { k \in 1..Len(CONTEXTS) : Contains(step, CONTEXTS[k]) }
    IN  IF hits = {} THEN <<>>
        ELSE CONTEXTS[CHOOSE k \in hits : \A j \in hits : k <= j]

\* re.findall(q([^q]*)q, s) for a quote character q: the contents, in order
RECURSIVE FindQuoted(_, _, _)
FindQuoted(s, q, i) ==
    IF i > Len(s) THEN <<>>
    ELSE LET close == IF s[i] = q THEN IndexOf(s, q, i + 1) ELSE 0
         IN  IF close # 0
             THEN <<SubSeq(s, i + 1, close - 1)>> \o FindQuoted(s, q, close + 1)
             ELSE FindQuoted(s, q, i + 1)

\* [f'${v}$' for v in re.findall(r'\$([^$]+)\$', s)]
RECURSIVE FindVariables(_, _)
FindVariables(s, i) ==
    IF i > Len(s) THEN <<>>
    ELSE LET close == IF s[i] = 36 THEN IndexOf(s, 36, i + 1) ELSE 0
         IN  IF close >= i + 2
             THEN <<SubSeq(s, i, close)>> \o FindVariables(s, close + 1)
             ELSE FindVariables(s, i + 1)

\* An _extract_params that scans the text once, from left to right, and gives one
\* entry per literal or variable, in the order of the text.
RECURSIVE extract_params_in_text_order(_)
extract_params_in_text_order(step) ==
    IF step = <<>> THEN <<>>
    ELSE LET close == IF step[1] \in {34, 39, 36} THEN IndexOf(step, step[1], 2) ELSE 0
         IN  IF close # 0 /\ step[1] # 36
             THEN <<SubSeq(step, 2, close - 1)>>
                  \o extract_params_in_text_order(SubSeq(step, close + 1, Len(step)))
             ELSE IF close >= 3
             THEN <<SubSeq(step, 1, close)>>
                  \o extract_params_in_text_order(SubSeq(step, close + 1, Len(step)))
             ELSE extract_params_in_text_order(Tail(step))

\* StepParser._extract_params
extract_params(step) ==
    FindQuoted(step, 34, 1) \o FindQuoted(step, 39, 1) \o FindVariables(step, 1)

\* StepParser.parse: a ParsedStep
parse(step) ==
    LET first_line == Strip(FirstLine(step))
        normalized == StripKeyword(first_line)
        lower_step == Lower(normalized)
    IN  [action       |-> extract_action(lower_step),
         element_type |-> extract_element_type(lower_step),
         context      |-> extract_context(lower_step),
         params       |-> extract_params(normalized)]

\* StepParser.get_action_category
get_action_category(action) ==
    LET action_lower == Lower(action)
        hit == FirstCell({ p \in Cells(StepParser_ACTIONS) :
                               action_lower = StepParser_ACTIONS[p[1]].phrases[p[2]] })
    IN  IF hit = <<0, 0>> THEN UNKNOWN ELSE StepParser_ACTIONS[hit[1]].category

\* StepParser.get_element_category
get_element_category(element) ==
    LET element_lower == Lower(element)
        hit == FirstCell({ p \in Cells(ELEMENTS) :
                               \/ Contains(element_lower, ELEMENTS[p[1]].phrases[p[2]])
                               \/ Contains(ELEMENTS[p[1]].phrases[p[2]], element_lower) })
    IN  IF hit = <<0, 0>> THEN UNKNOWN ELSE ELEMENTS[hit[1]].category

\* An are_actions_compatible that takes two actions of unknown category for compatible.
are_actions_compatible_unknown(action1, action2) ==
    get_action_category(action1) = get_action_category(action2)

\* StepParser.are_actions_compatible
are_actions_compatible(action1, action2) ==
    /\ get_action_category(action1) = get_action_category(action2)
    /\ get_action_category(action1) # UNKNOWN

\* StepParser.are_elements_compatible
are_elements_compatible(element1, element2) ==
    /\ get_element_category(element1) = get_element_category(element2)
    /\ get_element_category(element1) # UNKNOWN

(* The semantic comparator: SemanticMatcher of semantic_matcher.py.         *)
(* Confidence is kept in hundredths (0.40 is 40): the code rounds it to two *)
(* decimals before it is used.                                              *)

\* SemanticMatcher._compare_actions
compare_actions(orig, sugg) ==
    IF orig.action = <<>> \/ sugg.action = <<>> THEN TRUE
    ELSE IF orig.action = sugg.action THEN TRUE
    ELSE are_actions_compatible(orig.action, sugg.action)

\* SemanticMatcher._compare_elements
compare_elements(orig, sugg) ==
    IF orig.element_type = <<>> \/ sugg.element_type = <<>> THEN TRUE
    ELSE IF orig.element_type = sugg.element_type THEN TRUE
    ELSE are_elements_compatible(orig.element_type, sugg.element_type)

\* the synonym pairs of _compare_context
CONTEXT_SYNONYMS == <<
    << <<1074, 32, 1090, 1072, 1073, 1083, 1080, 1094, 1077>> (* в таблице *), <<1074, 32, 1090, 1072, 1073, 1083, 1080, 1095, 1085, 1086, 1081, 32, 1095, 1072, 1089, 1090, 1080>> (* в табличной части *) >>,
    << <<1074, 32, 1092, 1086, 1088, 1084, 1077>> (* в форме *), <<1074, 32, 1086, 1082, 1085, 1077>> (* в окне *) >> >>

\* A _compare_context that knows no synonym pairs.
compare_context_without_synonyms(orig, sugg) ==
    IF orig.context = <<>> /\ sugg.context = <<>> THEN TRUE
    ELSE IF orig.context = <<>> /\ sugg.context # <<>> THEN FALSE
    ELSE IF orig.context # <<>> /\ sugg.context = <<>> THEN TRUE
    ELSE orig.context = sugg.context

\* SemanticMatcher._compare_context
compare_context(orig, sugg) ==
    IF orig.context = <<>> /\ sugg.context = <<>> THEN TRUE
    ELSE IF orig.context = <<>> /\ sugg.context # <<>> THEN FALSE
    ELSE IF orig.context # <<>> /\ sugg.context = <<>> THEN TRUE
    ELSE IF orig.context = sugg.context THEN TRUE
    ELSE \E k \in 1..Len(CONTEXT_SYNONYMS) :
             \/ (orig.context = CONTEXT_SYNONYMS[k][1] /\ sugg.context = CONTEXT_SYNONYMS[k][2])
             \/ (orig.context = CONTEXT_SYNONYMS[k][2] /\ sugg.context = CONTEXT_SYNONYMS[k][1])

\* abs(a - b)
AbsDiff(a, b) == IF a >= b THEN a - b ELSE b - a

\* SemanticMatcher._compare_params
compare_params(orig, sugg) ==
    IF AbsDiff(Len(orig.params), Len(sugg.params)) > 1 THEN FALSE
    ELSE TRUE

\* an Optional[str] inside an f-string: None is written 'None'
FormatOptional(value) == IF value = <<>> THEN <<78, 111, 110, 101>> (* None *) ELSE value

\* SemanticMatcher._generate_warnings: the list of warning texts
generate_warnings(orig, sugg, action_match, element_match, context_match, params_match) ==
    (IF ~action_match
     THEN << Concat(<< <<68, 105, 102, 102, 101, 114, 101, 110, 116, 32, 97, 99, 116, 105, 111, 110, 32, 116, 121, 112, 101, 58, 32, 39>> (* Different action type: ' *), FormatOptional(orig.action),
                       <<39, 32, 118, 115, 32, 39>> (* ' vs ' *), FormatOptional(sugg.action), <<39>> (* ' *) >>) >>
     ELSE <<>>)
    \o
    (IF ~element_match
     THEN << Concat(<< <<68, 105, 102, 102, 101, 114, 101, 110, 116, 32, 85, 73, 32, 101, 108, 101, 109, 101, 110, 116, 32, 116, 121, 112, 101, 58, 32, 39>> (* Different UI element type: ' *), FormatOptional(orig.element_type),
                       <<39, 32, 118, 115, 32, 39>> (* ' vs ' *), FormatOptional(sugg.element_type), <<39>> (* ' *) >>) >>
     ELSE <<>>)
    \o
    (IF ~context_match
     THEN << Concat(<< <<68, 105, 102, 102, 101, 114, 101, 110, 116, 32, 99, 111, 110, 116, 101, 120, 116, 58, 32, 39>> (* Different context: ' *), FormatOptional(orig.context),
                       <<39, 32, 118, 115, 32, 39>> (* ' vs ' *), FormatOptional(sugg.context), <<39>> (* ' *) >>) >>
     ELSE <<>>)
    \o
    (IF ~params_match
     THEN << Concat(<< <<68, 105, 102, 102, 101, 114, 101, 110, 116, 32, 110, 117, 109, 98, 101, 114, 32, 111, 102, 32, 112, 97, 114, 97, 109, 101, 116, 101, 114, 115, 58, 32>> (* Different number of parameters:  *), Decimal(Len(orig.params)),
                       <<32, 118, 115, 32>> (*  vs  *), Decimal(Len(sugg.params)) >>) >>
     ELSE <<>>)

\* the weights of _calculate_confidence, in hundredths
WEIGHT_ACTION == 40
WEIGHT_ELEMENT == 40
WEIGHT_CONTEXT == 15
WEIGHT_PARAMS == 5

\* A _calculate_confidence that weighs the four axes alike.
calculate_confidence_equal_weights(action_match, element_match, context_match, params_match) ==
    (IF action_match THEN 25 ELSE 0)
    + (IF element_match THEN 25 ELSE 0)
    + (IF context_match THEN 25 ELSE 0)
    + (IF params_match THEN 25 ELSE 0)

\* A _calculate_confidence that rewards a disagreement on the parameters.
calculate_confidence_params_reversed(action_match, element_match, context_match, params_match) ==
    (IF action_match THEN WEIGHT_ACTION ELSE 0)
    + (IF element_match THEN WEIGHT_ELEMENT ELSE 0)
    + (IF context_match THEN WEIGHT_CONTEXT ELSE 0)
    + (IF params_match THEN 0 ELSE WEIGHT_PARAMS)

\* SemanticMatcher._calculate_confidence, in hundredths
calculate_confidence(action_match, element_match, context_match, params_match) ==
    (IF action_match THEN WEIGHT_ACTION ELSE 0)
    + (IF element_match THEN WEIGHT_ELEMENT ELSE 0)
    + (IF context_match THEN WEIGHT_CONTEXT ELSE 0)
    + (IF params_match THEN WEIGHT_PARAMS ELSE 0)

\* the critical_warnings of _is_safe_replacement
CRITICAL_WARNINGS == << <<68, 105, 102, 102, 101, 114, 101, 110, 116, 32, 97, 99, 116, 105, 111, 110, 32, 116, 121, 112, 101>> (* Different action type *), <<68, 105, 102, 102, 101, 114, 101, 110, 116, 32, 85, 73, 32, 101, 108, 101, 109, 101, 110, 116, 32, 116, 121, 112, 101>> (* Different UI element type *) >>

\* An _is_safe_replacement that requires the action to agree but not the element.
is_safe_replacement_action_only(action_match, element_match, context_match, warnings) ==
    IF ~action_match THEN FALSE
    ELSE ~ \E w \in 1..Len(warnings) : Contains(warnings[w], CRITICAL_WARNINGS[1])

\* SemanticMatcher._is_safe_replacement
is_safe_replacement(action_match, element_match, context_match, warnings) ==
    IF ~action_match \/ ~element_match THEN FALSE
    ELSE ~ \E w \in 1..Len(warnings) :
               \E c \in 1..Len(CRITICAL_WARNINGS) : Contains(warnings[w], CRITICAL_WARNINGS[c])

\* the SemanticMatch compare builds from the four verdicts and the warnings
SemanticMatch(action_match, element_match, context_match, params_match, warnings) ==
    [action_match  |-> action_match,
     element_match |-> element_match,
     context_match |-> context_match,
     params_match  |-> params_match,
     confidence    |-> calculate_confidence(action_match, element_match,
                                            context_match, params_match),
     is_safe       |-> is_safe_replacement(action_match, element_match,
                                           context_match, warnings),
     warnings      |-> warnings]

\* compare, from the four verdicts on
compare_verdicts(orig, sugg, action_match, element_match, context_match, params_match) ==
    SemanticMatch(action_match, element_match, context_match, params_match,
                  generate_warnings(orig, sugg, action_match, element_match,
                                    context_match, params_match))

\* compare, from the two parsed steps on
compare_parsed(orig_parsed, sugg_parsed) ==
    compare_verdicts(orig_parsed, sugg_parsed,
                     compare_actions(orig_parsed, sugg_parsed),
                     compare_elements(orig_parsed, sugg_parsed),
                     compare_context(orig_parsed, sugg_parsed),
                     compare_params(orig_parsed, sugg_parsed))

\* SemanticMatcher.compare: a SemanticMatch
compare(original_step, suggested_step) ==
    compare_parsed(parse(original_step), parse(suggested_step))

\* A get_confidence_level whose buckets include their lower boundary.
get_confidence_level_closed(confidence) ==
    IF confidence >= 80 THEN "high"
    ELSE IF confidence >= 60 THEN "medium"
    ELSE "low"

\* SemanticMatcher.get_confidence_level, on a confidence in hundredths
get_confidence_level(confidence) ==
    IF confidence > 80 THEN "high"
    ELSE IF confidence > 60 THEN "medium"
    ELSE "low"

(* The lexical matcher: difflib.SequenceMatcher(None, a, b).ratio(), as the  *)
(* code calls it.  A ratio 2.0*M/T is kept as the fraction [num, den], which *)
(* orders exactly as the floats do.  (The strings of the model are shorter   *)
(* than the 200 characters at which difflib's autojunk heuristic sets in.)   *)

\* the length of the common run of a[i..ahi] and b[j..bhi]
RECURSIVE RunLength(_, _, _, _, _, _)
RunLength(a, b, i, j, ahi, bhi) ==
    IF i > ahi \/ j > bhi THEN 0
    ELSE IF a[i] # b[j] THEN 0
    ELSE 1 + RunLength(a, b, i + 1, j + 1, ahi, bhi)

\* SequenceMatcher.find_longest_match(alo, ahi, blo, bhi), bounds inclusive: the longest
\* matching block; of those the one starting earliest in a; of those, earliest in b
find_longest_match(a, b, alo, ahi, blo, bhi) ==
    LET starts == { p \in (alo..ahi) \X (blo..bhi) :
                        /\ a[p[1]] = b[p[2]]
                        /\ (p[1] = alo \/ p[2] = blo \/ a[p[1] - 1] # b[p[2] - 1]) }
        size == [p \in starts |-> RunLength(a, b, p[1], p[2], ahi, bhi)]
    IN  IF starts = {} THEN [i |-> alo, j |-> blo, size |-> 0]
        ELSE LET best == CHOOSE p \in starts : \A q \in starts :
                             \/ size[p] > size[q]
                             \/ /\ size[p] = size[q]
                                /\ (p[1] < q[1] \/ (p[1] = q[1] /\ p[2] <= q[2]))
             IN  [i |-> best[1], j |-> best[2], size |-> size[best]]

\* the total size of SequenceMatcher.get_matching_blocks() within a[alo..ahi], b[blo..bhi]
RECURSIVE MatchingSize(_, _, _, _, _, _)
MatchingSize(a, b, alo, ahi, blo, bhi) ==
    IF alo > ahi \/ blo > bhi THEN 0
    ELSE LET m == find_longest_match(a, b, alo, ahi, blo, bhi)
         IN  IF m.size = 0 THEN 0
             ELSE m.size
                  + MatchingSize(a, b, alo, m.i - 1, blo, m.j - 1)
                  + MatchingSize(a, b, m.i + m.size, ahi, m.j + m.size, bhi)

\* SequenceMatcher(None, a, b).ratio(): 2.0 * matches / (len(a) + len(b)), 1.0 for two
\* empty strings
ratio(a, b) ==
    IF Len(a) + Len(b) = 0 THEN [num |-> 1, den |-> 1]
    ELSE [num |-> 2 * MatchingSize(a, b, 1, Len(a), 1, Len(b)),
          den |-> Len(a) + Len(b)]

\* r > n/10, for the thresholds 0.7 and 0.3 of the code
ExceedsTenths(r, n) == r.num * 10 > n * r.den

\* r1 >= r2
RatioGE(r1, r2) == r1.num * r2.den >= r2.num * r1.den

\* round(r, 2), in hundredths.  A tie is an exact eighth for a denominator below 80
\* (the strings of the model are shorter), which Python rounds to the even hundredth.
Round2(r) ==
    LET q == (100 * r.num) \div r.den
        rem == (100 * r.num) % r.den
    IN  IF 2 * rem < r.den THEN q
        ELSE IF 2 * rem > r.den THEN q + 1
        ELSE IF q % 2 = 0 THEN q ELSE q + 1

\* the positions 1..n in the order a stable descending sort by keys puts them: position
\* n goes after the positions of a key greater than or equal to its own
RECURSIVE SortedPositions(_, _)
SortedPositions(keys, n) ==
    IF n = 0 THEN <<>>
    ELSE LET before == SortedPositions(keys, n - 1)
             pos == Cardinality({ k \in 1..(n - 1) : RatioGE(keys[before[k]], keys[n]) })
         IN  SubSeq(before, 1, pos) \o <<n>> \o SubSeq(before, pos + 1, n - 1)

\* list.sort(key=..., reverse=True), keys[i] being the key of list[i] as a fraction: a
\* stable sort
SortDescending(list, keys) ==
    LET order == SortedPositions(keys, Len(list))
    IN  [p \in 1..Len(list) |-> list[order[p]]]

\* A list[:n] that does not cut the list.
TakeAll(list, n) == list

\* list[:n], for n >= 0
Take(list, n) == SubSeq(list, 1, IF n < Len(list) THEN n ELSE Len(list))

(* Python's dict keeps insertion order: a dict is a list of [key, value]     *)
(* entries with distinct keys.                                               *)

DictHas(d, k) == \E i \in 1..Len(d) : d[i].key = k

DictGet(d, k) == d[CHOOSE i \in 1..Len(d) : d[i].key = k].value

\* A d[k] = v that keeps the value a key already has (first write wins).
DictPutFirst(d, k, v) ==
    IF DictHas(d, k) THEN d ELSE Append(d, [key |-> k, value |-> v])

\* d[k] = v
DictPut(d, k, v) ==
    IF DictHas(d, k)
    THEN [i \in 1..Len(d) |-> IF d[i].key = k THEN [key |-> k, value |-> v] ELSE d[i]]
    ELSE Append(d, [key |-> k, value |-> v])

(* The inputs of the model: the library file and the steps resolved against  *)
(* it.  An item of the library file is [name, full_type]: its 'ИмяШага' and  *)
(* its 'ПолныйТипШага' ('ОписаниеШага' is stored and never read).            *)

LIBRARY_ITEMS == <<
    [name |-> <<1050, 1086, 1075, 1076, 1072, 32, 1103, 32, 1085, 1072, 1078, 1080, 1084, 1072, 1102, 32, 1085, 1072, 32, 1082, 1085, 1086, 1087, 1082, 1091, 32, 34, 1044, 1072, 34>> (* Когда я нажимаю на кнопку "Да" *),    full_type |-> <<1055, 1088, 1086, 1095, 1077, 1077>> (* Прочее *)],
    [name |-> <<1048, 32, 1103, 32, 1085, 1072, 1078, 1080, 1084, 1072, 1102, 32, 1085, 1072, 32, 1082, 1085, 1086, 1087, 1082, 1091, 32, 34, 1054, 1050, 34>> (* И я нажимаю на кнопку "ОК" *),        full_type |-> <<85, 73, 46, 1050, 1085, 1086, 1087, 1082, 1080>> (* UI.Кнопки *)],
    [name |-> <<1048, 32, 1085, 1072, 1078, 1080, 1084, 1072, 1102, 32, 1082, 1085, 1086, 1087, 1082, 1091, 32, 34, 1054, 1050, 34>> (* И нажимаю кнопку "ОК" *),             full_type |-> <<85, 73, 46, 1050, 1085, 1086, 1087, 1082, 1080>> (* UI.Кнопки *)],
    [name |-> <<1048, 32, 1103, 32, 1085, 1072, 1078, 1080, 1084, 1072, 1102, 32, 1082, 1085, 1086, 1087, 1082, 1080, 32, 34, 1054, 1050, 34>> (* И я нажимаю кнопки "ОК" *),           full_type |-> <<85, 73, 46, 1050, 1085, 1086, 1087, 1082, 1080>> (* UI.Кнопки *)],
    [name |-> <<1048, 32, 1103, 32, 1085, 1072, 1078, 1080, 1084, 1072, 1102, 32, 1082, 1085, 1086, 1087, 1082, 1072, 32, 34, 1054, 1050, 34>> (* И я нажимаю кнопка "ОК" *),           full_type |-> <<85, 73, 46, 1060, 1086, 1088, 1084, 1099>> (* UI.Формы *)],
    [name |-> <<1048, 32, 1074, 32, 1090, 1072, 1073, 1083, 1080, 1094, 1077, 32, 1103, 32, 1085, 1072, 1078, 1080, 1084, 1072, 1102, 32, 1082, 1085, 1086, 1087, 1082, 1091, 32, 34, 1054, 1050, 34>> (* И в таблице я нажимаю кнопку "ОК" *), full_type |-> <<85, 73, 46, 1058, 1072, 1073, 1083, 1080, 1094, 1099>> (* UI.Таблицы *)],
    [name |-> <<1048, 32, 1103, 32, 1074, 1099, 1073, 1080, 1088, 1072, 1102, 32, 1082, 1085, 1086, 1087, 1082, 1091, 32, 34, 1054, 1050, 34>> (* И я выбираю кнопку "ОК" *),           full_type |-> <<85, 73, 46, 1050, 1085, 1086, 1087, 1082, 1080>> (* UI.Кнопки *)] >>

\* the steps resolved or searched for
QUERIES == {
    <<1048, 32, 1103, 32, 1085, 1072, 1078, 1080, 1084, 1072, 1102, 32, 1082, 1085, 1086, 1087, 1082, 1091, 32, 34, 1054, 1050, 34>> (* И я нажимаю кнопку "ОК" *),
    <<1050, 1086, 1075, 1076, 1072, 32, 1103, 32, 1085, 1072, 1078, 1080, 1084, 1072, 1102, 32, 1082, 1085, 1086, 1087, 1082, 1091, 32, 34, 1053, 1077, 1090, 34, 58>> (* Когда я нажимаю кнопку "Нет": *),
    <<1048, 32, 1103, 32, 1079, 1072, 1082, 1088, 1099, 1074, 1072, 1102, 32, 1086, 1082, 1085, 1086>> (* И я закрываю окно *),
    <<1048, 32, 1103, 32, 1085, 1072, 1078, 1080, 1084, 1072, 1102, 32, 1085, 1072, 32, 1082, 1085, 1086, 1087, 1082, 1091, 32, 34, 1053, 1077, 1090, 34>> (* И я нажимаю на кнопку "Нет" *),
    <<1058, 1086, 1075, 1076, 1072, 32, 1103, 32, 1085, 1072, 1078, 1080, 1084, 1072, 1102, 32, 1085, 1072, 32, 1082, 1085, 1086, 1087, 1082, 1091, 32, 34, 1053, 1077, 1090, 34>> (* Тогда я нажимаю на кнопку "Нет" *),
    <<1044, 1072, 1085, 1086, 32, 53>> (* Дано 5 *),
    <<1048, 32, 1103, 32, 1087, 1088, 1086, 1074, 1077, 1088, 1103, 1102, 32, 1082, 1085, 1086, 1087, 1082, 1091, 32, 34, 1054, 1050, 34>> (* И я проверяю кнопку "ОК" *) }

\* the category and subcategory filters of a search ('' is no filter)
FILTERS == {
    [category |-> <<>>,       subcategory |-> <<>>],
    [category |-> <<85, 73>> (* UI *),     subcategory |-> <<>>],
    [category |-> <<85, 73>> (* UI *),     subcategory |-> <<1050, 1085, 1086, 1087, 1082, 1080>> (* Кнопки *)],
    [category |-> <<85, 73, 46, 1050, 1085, 1086, 1087, 1082, 1080>> (* UI.Кнопки *), subcategory |-> <<>>],
    [category |-> <<1055, 1088, 1086, 1095, 1077, 1077>> (* Прочее *), subcategory |-> <<>>],
    [category |-> <<1054, 1090, 1095, 1077, 1090, 1099>> (* Отчеты *), subcategory |-> <<>>] }

\* the largest top_n of a search
MaxTopN == 2

\* list[::-1]
Reverse(list) == [i \in 1..Len(list) |-> list[Len(list) + 1 - i]]

\* the contiguous parts of a list, the empty one included
Segments(list) ==
    { SubSeq(list, i, j) : i \in 1..(Len(list) + 1), j \in 0..Len(list) }

\* the library files of list shape (the format of library-full.json): every contiguous
\* part of LIBRARY_ITEMS, in its order or in the reverse order
LIST_SOURCES ==
    { [shape |-> "list", data |-> items] :
          items \in Segments(LIBRARY_ITEMS) \cup Segments(Reverse(LIBRARY_ITEMS)) }

\* library files of dict shape (the format of vanessa_steps_ai_knowledge.json): the data
\* is the list of the (category, steps) pairs of the object, a step being its 'шаг'
DICT_SOURCES == {
    [shape |-> "dict", data |-> <<>>],
    [shape |-> "dict",
     data |-> << [category |-> <<1055, 1088, 1086, 1095, 1077, 1077>> (* Прочее *), steps |-> << LIBRARY_ITEMS[1].name >>],
                 [category |-> <<85, 73>> (* UI *),
                  steps |-> << LIBRARY_ITEMS[2].name, LIBRARY_ITEMS[3].name >>] >>] }

\* library files that hold well-formed JSON of neither shape: a number, a string, a
\* boolean or null
SCALAR_SOURCES == { [shape |-> "scalar", data |-> <<>>] }

\* the library files of the model
SOURCES == LIST_SOURCES \cup DICT_SOURCES \cup SCALAR_SOURCES

\* The lines the feature files of the model are written from: a header comment, a
\* feature line, a scenario line, three step lines (one the library holds, written with
\* single quotes; one it does not hold but has a similar template for; one it has
\* nothing similar to), a table row and a docstring delimiter.
LANGUAGE_LINE == <<35, 32, 108, 97, 110, 103, 117, 97, 103, 101, 58, 32, 114, 117>> (* # language: ru *)
FEATURE_LINE == <<1060, 1091, 1085, 1082, 1094, 1080, 1086, 1085, 1072, 1083, 58, 32, 1058, 1077, 1089, 1090>> (* Функционал: Тест *)
SCENARIO_LINE == <<1057, 1094, 1077, 1085, 1072, 1088, 1080, 1081, 58, 32, 1055, 1077, 1088, 1074, 1099, 1081>> (* Сценарий: Первый *)
STEP_LINES == {
    <<1048, 32, 1103, 32, 1074, 1099, 1073, 1080, 1088, 1072, 1102, 32, 1082, 1085, 1086, 1087, 1082, 1091, 32, 39, 1054, 1050, 39>> (* И я выбираю кнопку 'ОК' *),
    <<1048, 32, 1103, 32, 1087, 1088, 1086, 1074, 1077, 1088, 1103, 1102, 32, 1082, 1085, 1086, 1087, 1082, 1091, 32, 34, 1054, 1050, 34>> (* И я проверяю кнопку "ОК" *),
    <<1048, 32, 1103, 32, 1079, 1072, 1082, 1088, 1099, 1074, 1072, 1102, 32, 1086, 1082, 1085, 1086>> (* И я закрываю окно *) }
TABLE_LINE == <<124, 32, 1079, 1085, 1072, 1095, 1077, 1085, 1080, 1077, 32, 124>> (* | значение | *)
DOCSTRING_LINE == <<34, 34, 34>>
FILE_LINES ==
    {LANGUAGE_LINE, FEATURE_LINE, SCENARIO_LINE, TABLE_LINE, DOCSTRING_LINE} \cup STEP_LINES

\* the library file the validator of feature files has loaded
FILE_SOURCE == [shape |-> "list", data |-> << LIBRARY_ITEMS[6], LIBRARY_ITEMS[7] >>]

\* every step text of the model
TEXTS ==
    QUERIES \cup { LIBRARY_ITEMS[i].name : i \in 1..Len(LIBRARY_ITEMS) } \cup STEP_LINES

\* normalize_step, tabulated over the texts of the model
normalized_of == [t \in TEXTS |-> normalize_step(t)]

CANONICAL_FORMS == { normalized_of[t] : t \in TEXTS }

\* SequenceMatcher(None, a, b).ratio(), tabulated over the canonical forms of the model
ratio_of == [p \in CANONICAL_FORMS \X CANONICAL_FORMS |-> ratio(p[1], p[2])]

\* StepParser.parse and SemanticMatcher.compare, tabulated over the texts of the model
parsed_of == [t \in TEXTS |-> parse(t)]
compared_of == [p \in TEXTS \X TEXTS |-> compare(p[1], p[2])]

(* The validator's library: StepLibrary of validate.py.                     *)

\* "for step in self.steps: self.steps_normalized[normalize_step(step)] = step", from
\* the i-th step on, d being the dict so far
RECURSIVE NormalizeSteps(_, _, _)
NormalizeSteps(list, d, i) ==
    IF i > Len(list) THEN d
    ELSE NormalizeSteps(list, DictPut(d, normalized_of[list[i]], list[i]), i + 1)

\* "for category, steps in data.items(): for step in steps: self.steps.append(
\* step.get('шаг', ''))", from the i-th pair of the object on
RECURSIVE DictSteps(_, _)
DictSteps(data, i) ==
    IF i > Len(data) THEN <<>> ELSE data[i].steps \o DictSteps(data, i + 1)

\* self.steps as StepLibrary.load_library fills it: from a list, from a dict, and left
\* empty for data of neither shape
LoadedSteps(src) ==
    IF src.shape = "list" THEN [i \in 1..Len(src.data) |-> src.data[i].name]
    ELSE IF src.shape = "dict" THEN DictSteps(src.data, 1)
    ELSE <<>>

\* StepLibrary.load_library on a readable, well-formed JSON file:
\* [steps, steps_normalized]
StepLibrary_load_library(src) ==
    [steps |-> LoadedSteps(src), steps_normalized |-> NormalizeSteps(LoadedSteps(src), <<>>, 1)]

\* the loop "for norm_step, orig_step in self.steps_normalized.items(): if ratio > 0.7:
\* similar.append((orig_step, ratio))", from the i-th entry of the dict on
RECURSIVE SimilarSteps(_, _, _)
SimilarSteps(lib, normalized, i) ==
    IF i > Len(lib) THEN <<>>
    ELSE LET r == ratio_of[<<normalized, lib[i].key>>]
         IN  (IF ExceedsTenths(r, 7) THEN << [text |-> lib[i].value, ratio |-> r] >> ELSE <<>>)
             \o SimilarSteps(lib, normalized, i + 1)

\* [s[0] for s in similar]
Texts(similar) == [i \in 1..Len(similar) |-> similar[i].text]

\* A find_step that gives the step back as its own exact match.
find_step_echo(lib, step) ==
    IF DictHas(lib, normalized_of[step])
    THEN [found |-> TRUE, exact_match |-> step, suggestions |-> <<>>]
    ELSE [found |-> FALSE, exact_match |-> <<>>, suggestions |-> <<>>]

\* A find_step that runs the similarity search whether or not the step is found.
find_step_always_search(lib, step) ==
    LET normalized == normalized_of[step]
        found == DictHas(lib, normalized)
    IN  [found |-> found,
         exact_match |-> IF found THEN DictGet(lib, normalized) ELSE <<>>,
         suggestions |-> Texts(SimilarSteps(lib, normalized, 1))]

\* StepLibrary.find_step: (found, exact match, similar steps), lib being
\* self.steps_normalized
find_step(lib, step) ==
    LET normalized == normalized_of[step]
        similar == SimilarSteps(lib, normalized, 1)
        sorted == SortDescending(similar, [i \in 1..Len(similar) |-> similar[i].ratio])
    IN  IF DictHas(lib, normalized)
        THEN [found |-> TRUE, exact_match |-> DictGet(lib, normalized), suggestions |-> <<>>]
        ELSE [found |-> FALSE, exact_match |-> <<>>, suggestions |-> Texts(Take(sorted, 5))]

\* SemanticMatch.to_dict
to_dict(m) ==
    [action |-> m.action_match, element |-> m.element_match, context |-> m.context_match,
     params |-> m.params_match, confidence |-> m.confidence, is_safe |-> m.is_safe,
     warnings |-> m.warnings]

\* the suggestion_data of find_step_with_semantic with its semantic annotations
annotated_suggestion(orig_step, similarity, sugg_parsed, semantic_match) ==
    [text |-> orig_step, similarity |-> similarity,
     parsed |-> sugg_parsed,
     semantic_match |-> to_dict(semantic_match),
     confidence |-> get_confidence_level(semantic_match.confidence)]

\* A suggestion_data that keeps the annotations of a candidate whose analysis raised.
suggestion_data_ignoring_failure(enabled, raised, step, orig_step, similarity) ==
    IF enabled
    THEN annotated_suggestion(orig_step, similarity, parsed_of[orig_step],
                              compared_of[<<step, orig_step>>])
    ELSE [text |-> orig_step, similarity |-> similarity]

\* the suggestion_data of find_step_with_semantic for the template orig_step, of the
\* given similarity (in hundredths); raised: the semantic analysis of this candidate
\* raised an exception, which "except Exception: pass" swallows before any annotation
\* is stored
suggestion_data(enabled, raised, step, orig_step, similarity) ==
    IF enabled /\ ~raised
    THEN annotated_suggestion(orig_step, similarity, parsed_of[orig_step],
                              compared_of[<<step, orig_step>>])
    ELSE [text |-> orig_step, similarity |-> similarity]

\* the loop "for norm_step, orig_step in self.steps_normalized.items(): if similarity >
\* 0.7: suggestions.append(suggestion_data)", from the i-th entry of the dict on;
\* raising is the set of templates whose semantic analysis raises
RECURSIVE Suggestions(_, _, _, _, _, _)
Suggestions(lib, enabled, raising, step, normalized, i) ==
    IF i > Len(lib) THEN <<>>
    ELSE LET similarity == ratio_of[<<normalized, lib[i].key>>]
         IN  (IF ExceedsTenths(similarity, 7)
              THEN << suggestion_data(enabled, lib[i].value \in raising, step,
                                      lib[i].value, Round2(similarity)) >>
              ELSE <<>>)
             \o Suggestions(lib, enabled, raising, step, normalized, i + 1)

\* "suggestions.sort(key=lambda x: x['similarity'], reverse=True)" and suggestions[:5]
RankSuggestions(suggestions) ==
    Take(SortDescending(suggestions,
                        [i \in 1..Len(suggestions) |->
                            [num |-> suggestions[i].similarity, den |-> 100]]),
         5)

\* StepLibrary.find_step_with_semantic when the semantic analysis of the templates in
\* raising raises an exception: {found, exact_match, suggestions}, lib being
\* self.steps_normalized and enabled self.enable_semantic
find_step_with_semantic_raising(lib, enabled, raising, step) ==
    IF DictHas(lib, normalized_of[step])
    THEN [found |-> TRUE, exact_match |-> DictGet(lib, normalized_of[step]),
          suggestions |-> <<>>]
    ELSE [found |-> FALSE, exact_match |-> <<>>,
          suggestions |-> RankSuggestions(Suggestions(lib, enabled, raising, step,
                                                      normalized_of[step], 1))]

\* StepLibrary.find_step_with_semantic when nothing raises
find_step_with_semantic(lib, enabled, step) ==
    find_step_with_semantic_raising(lib, enabled, {}, step)

(* The validator's per-step check: ScenarioValidator._validate_step.         *)

\* [{'text': s} for s in similar]
TextOnly(similar) == [i \in 1..Len(similar) |-> [text |-> similar[i]]]

\* any(s.get('semantic_match', {}).get('is_safe', False) for s in suggestions)
has_safe(suggestions) ==
    \E i \in 1..Len(suggestions) :
        /\ "semantic_match" \in DOMAIN suggestions[i]
        /\ suggestions[i].semantic_match.is_safe

\* A severity that any suggestion lowers, in either mode.
error_severity_any_suggestion(ai_enhanced, suggestions) ==
    IF suggestions = <<>> THEN "critical" ELSE "semantic_check_required"

\* error_info['severity'] of _validate_step
error_severity(ai_enhanced, suggestions) ==
    IF suggestions = <<>> THEN "critical"
    ELSE IF ai_enhanced
         THEN (IF has_safe(suggestions) THEN "semantic_check_required" ELSE "critical")
         ELSE "semantic_check_required"

\* the error_info _validate_step appends for a step that is not found; with_parsed: the
\* parsed original step is added (ai_enhanced and library.enable_semantic)
error_info(ai_enhanced, with_parsed, step, suggestions) ==
    IF suggestions = <<>>
    THEN (IF with_parsed
          THEN [step |-> step, severity |-> error_severity(ai_enhanced, suggestions),
                parsed |-> parsed_of[step]]
          ELSE [step |-> step, severity |-> error_severity(ai_enhanced, suggestions)])
    ELSE IF ai_enhanced
    THEN (IF with_parsed
          THEN [step |-> step, severity |-> error_severity(ai_enhanced, suggestions),
                suggestions |-> suggestions, parsed |-> parsed_of[step]]
          ELSE [step |-> step, severity |-> error_severity(ai_enhanced, suggestions),
                suggestions |-> suggestions])
    ELSE [step |-> step, severity |-> error_severity(ai_enhanced, suggestions),
          similar_steps |-> [i \in 1..Len(suggestions) |-> suggestions[i].text]]

\* _validate_step, from the resolution result on: what it records for the step
validated(ai_enhanced, enabled, step, found, suggestions) ==
    IF found THEN [valid |-> TRUE]
    ELSE [valid |-> FALSE,
          error_info |-> error_info(ai_enhanced, ai_enhanced /\ enabled, step, suggestions)]

\* ScenarioValidator._validate_step(line_num, step), debug output aside
validate_step(lib, ai_enhanced, enabled, raising, step) ==
    IF ai_enhanced /\ enabled
    THEN validated(ai_enhanced, enabled, step,
                   DictHas(lib, normalized_of[step]),
                   find_step_with_semantic_raising(lib, enabled, raising, step).suggestions)
    ELSE validated(ai_enhanced, enabled, step,
                   DictHas(lib, normalized_of[step]),
                   TextOnly(find_step(lib, step).suggestions))

(* The search tool: StepsLibrary and StepsSearcher of search_steps.py, and   *)
(* the category index indexer.py writes for it.                              *)

\* full_type.split('.', 1): the category and the subcategory of a 'ПолныйТипШага'
SplitFullType(full_type) ==
    LET dot == IndexOf(full_type, 46, 1)
    IN  IF dot = 0 THEN [category |-> full_type, subcategory |-> <<>>]
        ELSE [category |-> SubSeq(full_type, 1, dot - 1),
              subcategory |-> From(full_type, dot + 1)]

\* the step_info records of a library file, items without a name skipped
RECURSIVE StepInfos(_, _)
StepInfos(data, i) ==
    IF i > Len(data) THEN <<>>
    ELSE (IF data[i].name = <<>> THEN <<>>
          ELSE << [step        |-> data[i].name,
                   category    |-> SplitFullType(data[i].full_type).category,
                   subcategory |-> SplitFullType(data[i].full_type).subcategory] >>)
         \o StepInfos(data, i + 1)

\* "self.steps_normalized[normalize_step(step_text)] = step_info", from the i-th step on
RECURSIVE NormalizeInfos(_, _, _)
NormalizeInfos(list, d, i) ==
    IF i > Len(list) THEN d
    ELSE NormalizeInfos(list, DictPut(d, normalized_of[list[i].step], list[i]), i + 1)

\* StepsLibrary.load_library on a readable, well-formed JSON file: [ok, steps,
\* steps_normalized]; on data that is no list and on an empty library a ValueError is
\* raised, reported, and the tool exits (ok is FALSE)
StepsLibrary_load_library(src) ==
    IF src.shape # "list" THEN [ok |-> FALSE, steps |-> <<>>, steps_normalized |-> <<>>]
    ELSE [ok |-> StepInfos(src.data, 1) # <<>>,
          steps |-> StepInfos(src.data, 1),
          steps_normalized |-> NormalizeInfos(StepInfos(src.data, 1), <<>>, 1)]

\* category_index[key].append(idx) on a defaultdict(list)
IndexAppend(d, key, idx) ==
    DictPut(d, key, (IF DictHas(d, key) THEN DictGet(d, key) ELSE <<>>) \o <<idx>>)

\* Indexer.create_category_index over Indexer.steps, from the i-th step on; positions
\* are 0-based, as enumerate gives them
RECURSIVE create_category_index(_, _, _)
create_category_index(infos, d, i) ==
    IF i > Len(infos) THEN d
    ELSE LET by_category == IndexAppend(d, infos[i].category, i - 1)
             full_cat == infos[i].category \o <<46>> \o infos[i].subcategory
         IN  create_category_index(infos,
                 IF infos[i].subcategory # <<>>
                 THEN IndexAppend(by_category, full_cat, i - 1)
                 ELSE by_category,
                 i + 1)

\* the result record of a search for one step_info
search_result(step_info, relevance) ==
    IF step_info.subcategory # <<>>
    THEN [step |-> step_info.step, category |-> step_info.category,
          relevance |-> relevance, subcategory |-> step_info.subcategory]
    ELSE [step |-> step_info.step, category |-> step_info.category,
          relevance |-> relevance]

\* "matches.sort(key=lambda x: x['relevance'], reverse=True); return matches[:top_n]"
RankMatches(matches, top_n) ==
    Take(SortDescending(matches,
                        [i \in 1..Len(matches) |-> [num |-> matches[i].relevance, den |-> 100]]),
         top_n)

\* A loop of _search_direct that applies no filter.
RECURSIVE DirectMatches_unfiltered(_, _, _, _, _)
DirectMatches_unfiltered(lib, normalized_query, category, subcategory, i) ==
    IF i > Len(lib) THEN <<>>
    ELSE LET r == ratio_of[<<normalized_query, lib[i].key>>]
         IN  (IF ExceedsTenths(r, 3) THEN << search_result(lib[i].value, Round2(r)) >>
              ELSE <<>>)
             \o DirectMatches_unfiltered(lib, normalized_query, category, subcategory, i + 1)

\* the loop of _search_direct over library.steps_normalized.items(), from the i-th entry
\* of the dict on: the matches appended
RECURSIVE DirectMatches(_, _, _, _, _)
DirectMatches(lib, normalized_query, category, subcategory, i) ==
    IF i > Len(lib) THEN <<>>
    ELSE LET step_info == lib[i].value
             r == ratio_of[<<normalized_query, lib[i].key>>]
         IN  (IF category # <<>> /\ step_info.category # category THEN <<>>
              ELSE IF subcategory # <<>> /\ step_info.subcategory # subcategory THEN <<>>
              ELSE IF ExceedsTenths(r, 3) THEN << search_result(step_info, Round2(r)) >>
              ELSE <<>>)
             \o DirectMatches(lib, normalized_query, category, subcategory, i + 1)

\* StepsSearcher._search_direct, lib being library.steps_normalized
search_direct(lib, query, top_n, category, subcategory) ==
    RankMatches(DirectMatches(lib, normalized_of[query], category, subcategory, 1), top_n)

\* the loop of _search_with_index over candidate_indices, a set of small integers, which
\* is iterated in ascending order: the matches appended from position idx (0-based) on
RECURSIVE IndexedMatches(_, _, _, _)
IndexedMatches(infos, candidate_indices, normalized_query, idx) ==
    IF idx >= Len(infos) THEN <<>>
    ELSE LET step_info == infos[idx + 1]
             r == ratio_of[<<normalized_query, normalized_of[step_info.step]>>]
         IN  (IF idx \in candidate_indices /\ ExceedsTenths(r, 3)
              THEN << search_result(step_info, Round2(r)) >>
              ELSE <<>>)
             \o IndexedMatches(infos, candidate_indices, normalized_query, idx + 1)

\* StepsSearcher._search_with_index, infos being library.steps and index the category
\* index
search_with_index(infos, index, query, top_n, category, subcategory) ==
    LET cat_key == IF subcategory # <<>> THEN category \o <<46>> \o subcategory ELSE category
        positions == DictGet(index, cat_key)
        candidate_indices == { positions[k] : k \in 1..Len(positions) }
    IN  IF ~DictHas(index, cat_key) THEN <<>>
        ELSE RankMatches(IndexedMatches(infos, candidate_indices, normalized_of[query], 0),
                         top_n)

\* StepsSearcher.search
search(lib, infos, loaded, index, query, top_n, category, subcategory) ==
    IF loaded /\ category # <<>>
    THEN search_with_index(infos, index, query, top_n, category, subcategory)
    ELSE search_direct(lib, query, top_n, category, subcategory)

(* Specification Spec: one run of a tool over a library file.  A run is a    *)
(* run of validate.py (a StepLibrary is constructed, then steps are resolved *)
(* against it) or a run of search_steps.py (a StepsLibrary and a             *)
(* StepsSearcher are constructed, then queries are searched).  The library   *)
(* file is chosen at the start and does not change during the run.  The     *)
(* category index, when there is one, is the one indexer.py wrote for the    *)
(* same library file.                                                        *)

NoCall == [op |-> "none"]

NormIdle == n_raw = <<>> /\ n_once = <<>> /\ n_twice = <<>> /\ n_pc = "idle"
LexIdle ==
    /\ source = [shape |-> "list", data |-> <<>>] /\ exited = FALSE
    /\ v_loaded = FALSE /\ enable_semantic = FALSE
    /\ steps = <<>> /\ steps_normalized = <<>>
    /\ s_loaded = FALSE /\ s_steps = <<>> /\ s_steps_normalized = <<>>
    /\ indexes_loaded = FALSE /\ category_index = <<>>
    /\ call = NoCall
SemIdle ==
    m_original = <<>> /\ m_suggested = <<>> /\ m_match = <<>> /\ m_level = "" /\ m_pc = "idle"
ConcIdle == t_pc = <<>> /\ t_call = <<>> /\ t_frame = <<>>
FileIdle ==
    /\ f_lines = <<>> /\ f_read = 0 /\ v_ai_enhanced = FALSE /\ v_logger = FALSE
    /\ v_stats = <<>> /\ v_errors = <<>> /\ v_log = <<>>
WaitIdle ==
    /\ w_timeout = 0 /\ w_now = 0 /\ w_markers = {} /\ w_marked_at = -1
    /\ w_pc = "idle" /\ w_wake = 0 /\ w_status = "" /\ w_exit = -1

Init ==
    /\ source \in SOURCES
    /\ exited = FALSE
    /\ v_loaded = FALSE /\ enable_semantic = FALSE
    /\ steps = <<>> /\ steps_normalized = <<>>
    /\ s_loaded = FALSE /\ s_steps = <<>> /\ s_steps_normalized = <<>>
    /\ indexes_loaded = FALSE /\ category_index = <<>>
    /\ call = NoCall
    /\ NormIdle /\ SemIdle /\ ConcIdle /\ FileIdle /\ WaitIdle

\* StepLibrary.__init__(library_path, enable_semantic): validate.py starts
StepLibrary_init(enabled) ==
    /\ ~v_loaded /\ ~s_loaded /\ ~exited
    /\ v_loaded' = TRUE
    /\ enable_semantic' = enabled
    /\ steps' = StepLibrary_load_library(source).steps
    /\ steps_normalized' = StepLibrary_load_library(source).steps_normalized
    /\ UNCHANGED <<source, exited, s_loaded, s_steps, s_steps_normalized, indexes_loaded,
                   category_index, call>>
    /\ UNCHANGED lexOthers

\* StepsLibrary.__init__(library_path) and StepsSearcher.__init__(library, index_dir):
\* search_steps.py starts, with the index files present or not; on an empty library the
\* tool exits before anything is searched
StepsSearcher_init(with_index) ==
    /\ ~v_loaded /\ ~s_loaded /\ ~exited
    /\ exited' = ~StepsLibrary_load_library(source).ok
    /\ s_loaded' = StepsLibrary_load_library(source).ok
    /\ s_steps' = StepsLibrary_load_library(source).steps
    /\ s_steps_normalized' = StepsLibrary_load_library(source).steps_normalized
    /\ indexes_loaded' = (s_loaded' /\ with_index)
    /\ category_index' = IF s_loaded' /\ with_index
                         THEN create_category_index(s_steps', <<>>, 1)
                         ELSE <<>>
    /\ UNCHANGED <<source, v_loaded, enable_semantic, steps, steps_normalized, call>>
    /\ UNCHANGED lexOthers

\* library.find_step(step)
FindStep(step) ==
    /\ v_loaded /\ call = NoCall
    /\ call' = [op |-> "find_step", step |-> step,
                result |-> find_step(steps_normalized, step)]
    /\ UNCHANGED <<source, exited, v_loaded, enable_semantic, steps, steps_normalized, s_loaded,
                   s_steps, s_steps_normalized, indexes_loaded, category_index>>
    /\ UNCHANGED lexOthers

\* the sets of templates whose semantic analysis may raise during one call: none, or
\* one template of the library
RAISING(lib) == { {} } \cup { { lib[k].value } : k \in 1..Len(lib) }

\* library.find_step_with_semantic(step), the semantic analysis raising for the
\* templates in raising
FindStepWithSemantic(step, raising) ==
    /\ v_loaded /\ call = NoCall
    /\ call' = [op |-> "find_step_with_semantic", step |-> step, raising |-> raising,
                result |-> find_step_with_semantic_raising(steps_normalized,
                                                           enable_semantic, raising, step)]
    /\ UNCHANGED <<source, exited, v_loaded, enable_semantic, steps, steps_normalized, s_loaded,
                   s_steps, s_steps_normalized, indexes_loaded, category_index>>
    /\ UNCHANGED lexOthers

\* ScenarioValidator(library, ai_enhanced=ai_enhanced)._validate_step(line_num, step)
ValidateStep(ai_enhanced, step, raising) ==
    /\ v_loaded /\ call = NoCall
    /\ call' = [op |-> "validate_step", step |-> step, ai_enhanced |-> ai_enhanced,
                raising |-> raising,
                result |-> validate_step(steps_normalized, ai_enhanced, enable_semantic,
                                         raising, step)]
    /\ UNCHANGED <<source, exited, v_loaded, enable_semantic, steps, steps_normalized, s_loaded,
                   s_steps, s_steps_normalized, indexes_loaded, category_index>>
    /\ UNCHANGED lexOthers

\* searcher.search(query, top_n, category, subcategory)
Search(query, top_n, filter) ==
    /\ s_loaded /\ call = NoCall
    /\ call' = [op |-> "search", step |-> query, top_n |-> top_n,
                category |-> filter.category, subcategory |-> filter.subcategory,
                result |-> search(s_steps_normalized, s_steps, indexes_loaded, category_index,
                                  query, top_n, filter.category, filter.subcategory)]
    /\ UNCHANGED <<source, exited, v_loaded, enable_semantic, steps, steps_normalized, s_loaded,
                   s_steps, s_steps_normalized, indexes_loaded, category_index>>
    /\ UNCHANGED lexOthers

\* the caller takes the result of the call; the tool goes on to its next step or query
TakeResult ==
    /\ call # NoCall
    /\ call' = NoCall
    /\ UNCHANGED <<source, exited, v_loaded, enable_semantic, steps, steps_normalized, s_loaded,
                   s_steps, s_steps_normalized, indexes_loaded, category_index>>
    /\ UNCHANGED lexOthers

Next ==
    \/ \E enabled \in BOOLEAN : StepLibrary_init(enabled)
    \/ \E with_index \in BOOLEAN : StepsSearcher_init(with_index)
    \/ \E step \in QUERIES : FindStep(step)
    \/ \E step \in QUERIES, raising \in RAISING(steps_normalized) :
           FindStepWithSemantic(step, raising)
    \/ \E ai_enhanced \in BOOLEAN, step \in QUERIES, raising \in RAISING(steps_normalized) :
           ValidateStep(ai_enhanced, step, raising)
    \/ \E query \in QUERIES, top_n \in 0..MaxTopN, filter \in FILTERS :
           Search(query, top_n, filter)
    \/ TakeResult

Spec == Init /\ [][Next]_vars

(* Specification SpecNorm: the canonicalizer alone.  An input string is      *)
(* typed fragment by fragment, canonicalized, and the result canonicalized   *)
(* again.                                                                    *)

\* the fragments an input is made of: a keyword with its space, a letter, a space, a
\* colon, a double quote, a backslash, a single quote, a digit, a dollar, a line feed
FRAGMENTS == {
    <<1048, 32>> (* И  *), <<120>> (* x *), <<32>> (*   *), <<58>> (* : *), <<34>> (* " *), <<92>> (* \ *), <<39>> (* ' *), <<53>> (* 5 *), <<36>> (* $ *), <<10>> }

\* the largest number of fragments of an input
MaxFragments == 4

InitNorm ==
    /\ n_raw = <<>> /\ n_once = <<>> /\ n_twice = <<>> /\ n_pc = "input"
    /\ LexIdle /\ SemIdle /\ ConcIdle /\ FileIdle /\ WaitIdle

TypeFragment(fragment) ==
    /\ n_pc = "input"
    /\ Len(n_raw) < MaxFragments
    /\ n_raw' = Append(n_raw, fragment)
    /\ UNCHANGED <<n_once, n_twice, n_pc>>
    /\ UNCHANGED normOthers

\* normalize_step(x)
NormalizeOnce ==
    /\ n_pc = "input"
    /\ n_once' = normalize_step(Concat(n_raw))
    /\ n_pc' = "once"
    /\ UNCHANGED <<n_raw, n_twice>>
    /\ UNCHANGED normOthers

\* normalize_step(normalize_step(x))
NormalizeTwice ==
    /\ n_pc = "once"
    /\ n_twice' = normalize_step(n_once)
    /\ n_pc' = "twice"
    /\ UNCHANGED <<n_raw, n_once>>
    /\ UNCHANGED normOthers

NextNorm ==
    \/ \E fragment \in FRAGMENTS : TypeFragment(fragment)
    \/ NormalizeOnce
    \/ NormalizeTwice

SpecNorm == InitNorm /\ [][NextNorm]_vars

(* Specification SpecSem: the semantic comparator alone.  An original step   *)
(* is composed word by word and compared with a library template.           *)

\* the words an original step is made of
WORDS == {
    <<1103>> (* я *), <<1085, 1072, 1078, 1080, 1084, 1072, 1102>> (* нажимаю *), <<1074, 1099, 1073, 1080, 1088, 1072, 1102>> (* выбираю *), <<1074, 1074, 1086, 1078, 1091>> (* ввожу *), <<1082, 1085, 1086, 1087, 1082, 1091>> (* кнопку *), <<1087, 1086, 1083, 1077>> (* поле *),
    <<1074, 32, 1090, 1072, 1073, 1083, 1080, 1094, 1077>> (* в таблице *), <<1074, 32, 1090, 1072, 1073, 1083, 1080, 1095, 1085, 1086, 1081, 32, 1095, 1072, 1089, 1090, 1080>> (* в табличной части *), <<1074, 32, 1092, 1086, 1088, 1084, 1077>> (* в форме *), <<34, 1054, 1050, 34>> (* "ОК" *) }

\* the largest number of words of an original step
MaxWords == 3

\* the templates an original step is compared with
SUGGESTED == {
    <<1048, 32, 1103, 32, 1085, 1072, 1078, 1080, 1084, 1072, 1102, 32, 1085, 1072, 32, 1082, 1085, 1086, 1087, 1082, 1091, 32, 34, 1054, 1050, 34>> (* И я нажимаю на кнопку "ОК" *),
    <<1048, 32, 1074, 32, 1086, 1082, 1085, 1077, 32, 1103, 32, 1085, 1072, 1078, 1080, 1084, 1072, 1102, 32, 1085, 1072, 32, 1082, 1085, 1086, 1087, 1082, 1091, 32, 34, 1054, 1050, 34>> (* И в окне я нажимаю на кнопку "ОК" *),
    <<1048, 32, 1074, 32, 1090, 1072, 1073, 1083, 1080, 1094, 1077, 32, 1103, 32, 1074, 1074, 1086, 1078, 1091, 32, 1074, 32, 1087, 1086, 1083, 1077, 32, 34, 1048, 1084, 1103, 34, 32, 1090, 1077, 1082, 1089, 1090, 32, 34, 120, 34>> (* И в таблице я ввожу в поле "Имя" текст "x" *),
    <<1048, 32, 1074, 32, 1090, 1072, 1073, 1083, 1080, 1094, 1077, 32, 1103, 32, 1074, 1099, 1073, 1080, 1088, 1072, 1102, 32, 1089, 1090, 1088, 1086, 1082, 1091>> (* И в таблице я выбираю строку *),
    <<1048, 32, 1103, 32, 1086, 1090, 1082, 1088, 1099, 1074, 1072, 1102, 32, 1092, 1086, 1088, 1084, 1091>> (* И я открываю форму *),
    <<1058, 1086, 1075, 1076, 1072, 32, 1086, 1090, 1082, 1088, 1099, 1083, 1086, 1089, 1100, 32, 1086, 1082, 1085, 1086, 32, 34, 1047, 1072, 1075, 1086, 1083, 1086, 1074, 1086, 1082, 34>> (* Тогда открылось окно "Заголовок" *),
    <<1048, 32, 1103, 32, 1074, 1099, 1073, 1080, 1088, 1072, 1102, 32, 1080, 1079, 32, 1074, 1099, 1087, 1072, 1076, 1072, 1102, 1097, 1077, 1075, 1086, 32, 1089, 1087, 1080, 1089, 1082, 1072, 32, 34, 1042, 1080, 1076, 34>> (* И я выбираю из выпадающего списка "Вид" *),
    <<1048, 32, 1103, 32, 1088, 1072, 1089, 1082, 1088, 1099, 1074, 1072, 1102, 32, 1089, 1087, 1080, 1089, 1086, 1082, 32, 34, 1042, 1080, 1076, 34>> (* И я раскрываю список "Вид" *),
    <<1048, 32, 1103, 32, 1074, 1074, 1086, 1078, 1091, 32, 1074, 32, 1087, 1086, 1083, 1077, 32, 39, 1048, 1084, 1103, 39, 32, 1090, 1077, 1082, 1089, 1090, 32, 34, 36, 1047, 1085, 1072, 1095, 1077, 1085, 1080, 1077, 36, 34>> (* И я ввожу в поле 'Имя' текст "$Значение$" *) }

\* ' '.join(words)
RECURSIVE JoinWords(_)
JoinWords(words) ==
    IF words = <<>> THEN <<>>
    ELSE IF Len(words) = 1 THEN words[1]
    ELSE words[1] \o <<32>> \o JoinWords(Tail(words))

InitSem ==
    /\ m_original = <<>> /\ m_suggested = <<>> /\ m_match = <<>> /\ m_level = ""
    /\ m_pc = "input"
    /\ NormIdle /\ LexIdle /\ ConcIdle /\ FileIdle /\ WaitIdle

AddWord(word) ==
    /\ m_pc = "input"
    /\ Len(m_original) < MaxWords
    /\ m_original' = Append(m_original, word)
    /\ UNCHANGED <<m_suggested, m_match, m_level, m_pc>>
    /\ UNCHANGED semOthers

\* semantic_match = matcher.compare(original_step, suggested_step) and
\* matcher.get_confidence_level(semantic_match.confidence)
Compare(suggested) ==
    /\ m_pc = "input"
    /\ m_original # <<>>
    /\ m_suggested' = suggested
    /\ m_match' = compare(JoinWords(m_original), suggested)
    /\ m_level' = get_confidence_level(m_match'.confidence)
    /\ m_pc' = "compared"
    /\ UNCHANGED m_original
    /\ UNCHANGED semOthers

NextSem ==
    \/ \E word \in WORDS : AddWord(word)
    \/ \E suggested \in SUGGESTED : Compare(suggested)

SpecSem == InitSem /\ [][NextSem]_vars

(* Specification SpecConc: a server that loaded the library once runs        *)
(* resolution and search calls on worker threads.  A call is a sequence of   *)
(* steps (canonicalize, look the key up, one loop iteration per dict entry,  *)
(* sort and return), and the steps of the threads interleave freely.         *)

\* the number of worker threads
MaxThreads == 2

THREADS == 1..MaxThreads

\* the libraries the server may have loaded: three consecutive items of LIBRARY_ITEMS
CONC_SOURCES == { src \in LIST_SOURCES : Len(src.data) = 3 /\ src.data[1] \in { LIBRARY_ITEMS[1], LIBRARY_ITEMS[5] } }

\* the calls a thread may run: find_step(step), find_step_with_semantic(step) and
\* search(step, top_n, category, subcategory) without index, unfiltered or filtered by
\* category and subcategory
CONC_CALLS ==
    { [op |-> op, step |-> step, top_n |-> 5, category |-> <<>>, subcategory |-> <<>>] :
          op \in {"find_step", "find_step_with_semantic"}, step \in QUERIES }
    \cup { [op |-> "search", step |-> step, top_n |-> MaxTopN,
            category |-> f.category, subcategory |-> f.subcategory] :
               step \in QUERIES,
               f \in { g \in FILTERS : g.category = <<>> \/ g.subcategory # <<>> } }

\* A frame shared by every call: the list of the loop kept on the object.
SharedFrame(t) == 1

\* the frame of the call thread t runs: "similar = []", "suggestions = []" and
\* "matches = []" are local variables, one list per call
Frame(t) == t

\* the dict a call iterates: the validator's or the searcher's steps_normalized
IteratedDict(c) == IF c.op = "search" THEN s_steps_normalized ELSE steps_normalized

\* one iteration of the loop of the call c, over the entry at c.index: what is appended
LoopAppends(c, lib) ==
    LET entry == lib[c.index]
        r == ratio_of[<<normalized_of[c.step], entry.key>>]
    IN  IF c.op = "find_step"
        THEN IF ExceedsTenths(r, 7) THEN << [text |-> entry.value, ratio |-> r] >> ELSE <<>>
        ELSE IF c.op = "find_step_with_semantic"
        THEN IF ExceedsTenths(r, 7)
             THEN << suggestion_data(enable_semantic, FALSE, c.step, entry.value, Round2(r)) >>
             ELSE <<>>
        ELSE IF c.category # <<>> /\ entry.value.category # c.category THEN <<>>
        ELSE IF c.subcategory # <<>> /\ entry.value.subcategory # c.subcategory THEN <<>>
        ELSE IF ExceedsTenths(r, 3) THEN << search_result(entry.value, Round2(r)) >>
        ELSE <<>>

\* the sort and the cut after the loop of the call c, on the list the loop filled
Returned(c, list) ==
    IF c.op = "find_step"
    THEN [found |-> FALSE, exact_match |-> <<>>,
          suggestions |-> Texts(Take(SortDescending(list, [i \in 1..Len(list) |-> list[i].ratio]), 5))]
    ELSE IF c.op = "find_step_with_semantic"
    THEN [found |-> FALSE, exact_match |-> <<>>, suggestions |-> RankSuggestions(list)]
    ELSE RankMatches(list, c.top_n)

\* what the call c returns when it runs alone
Alone(c) ==
    IF c.op = "find_step" THEN find_step(steps_normalized, c.step)
    ELSE IF c.op = "find_step_with_semantic"
    THEN find_step_with_semantic(steps_normalized, enable_semantic, c.step)
    ELSE search_direct(s_steps_normalized, c.step, c.top_n, c.category, c.subcategory)

InitConc ==
    /\ source \in CONC_SOURCES
    /\ exited = FALSE
    /\ v_loaded = TRUE /\ enable_semantic = TRUE
    /\ steps = StepLibrary_load_library(source).steps
    /\ steps_normalized = StepLibrary_load_library(source).steps_normalized
    /\ s_loaded = TRUE
    /\ s_steps = StepsLibrary_load_library(source).steps
    /\ s_steps_normalized = StepsLibrary_load_library(source).steps_normalized
    /\ indexes_loaded = FALSE /\ category_index = <<>>
    /\ call = NoCall
    /\ t_pc = [t \in THREADS |-> "idle"]
    /\ t_call = [t \in THREADS |-> <<>>]
    /\ t_frame = [t \in THREADS |-> <<>>]
    /\ NormIdle /\ SemIdle /\ FileIdle /\ WaitIdle

\* thread t enters a call: the query is canonicalized and the local list is created
Enter(t, c) ==
    /\ t_pc[t] = "idle"
    /\ t_pc' = [t_pc EXCEPT ![t] = IF c.op = "search" THEN "scan" ELSE "lookup"]
    /\ t_call' = [t_call EXCEPT ![t] = [op |-> c.op, step |-> c.step, top_n |-> c.top_n,
                                        category |-> c.category,
                                        subcategory |-> c.subcategory,
                                        index |-> 1, result |-> <<>>]]
    /\ t_frame' = [t_frame EXCEPT ![Frame(t)] = <<>>]
    /\ UNCHANGED lexVars
    /\ UNCHANGED concOthers

\* "if normalized in self.steps_normalized: return ..."
Lookup(t) ==
    /\ t_pc[t] = "lookup"
    /\ IF DictHas(steps_normalized, normalized_of[t_call[t].step])
       THEN /\ t_pc' = [t_pc EXCEPT ![t] = "done"]
            /\ t_call' = [t_call EXCEPT ![t].result =
                             [found |-> TRUE,
                              exact_match |-> DictGet(steps_normalized,
                                                      normalized_of[t_call[t].step]),
                              suggestions |-> <<>>]]
       ELSE /\ t_pc' = [t_pc EXCEPT ![t] = "scan"]
            /\ t_call' = t_call
    /\ UNCHANGED t_frame
    /\ UNCHANGED lexVars
    /\ UNCHANGED concOthers

\* one iteration of "for norm_step, ... in steps_normalized.items()", or the loop's end
Scan(t) ==
    /\ t_pc[t] = "scan"
    /\ IF t_call[t].index <= Len(IteratedDict(t_call[t]))
       THEN /\ t_frame' = [t_frame EXCEPT ![Frame(t)] =
                              @ \o LoopAppends(t_call[t], IteratedDict(t_call[t]))]
            /\ t_call' = [t_call EXCEPT ![t].index = @ + 1]
            /\ t_pc' = t_pc
       ELSE /\ t_pc' = [t_pc EXCEPT ![t] = "rank"]
            /\ UNCHANGED <<t_call, t_frame>>
    /\ UNCHANGED lexVars
    /\ UNCHANGED concOthers

\* the sort, the cut and the return
Rank(t) ==
    /\ t_pc[t] = "rank"
    /\ t_call' = [t_call EXCEPT ![t].result = Returned(t_call[t], t_frame[Frame(t)])]
    /\ t_pc' = [t_pc EXCEPT ![t] = "done"]
    /\ UNCHANGED t_frame
    /\ UNCHANGED lexVars
    /\ UNCHANGED concOthers

\* the caller took the result: the thread is free for the next request
Leave(t) ==
    /\ t_pc[t] = "done"
    /\ t_pc' = [t_pc EXCEPT ![t] = "idle"]
    /\ t_call' = [t_call EXCEPT ![t] = <<>>]
    /\ UNCHANGED t_frame
    /\ UNCHANGED lexVars
    /\ UNCHANGED concOthers

NextConc ==
    \/ \E t \in THREADS, c \in CONC_CALLS : Enter(t, c)
    \/ \E t \in THREADS : Lookup(t)
    \/ \E t \in THREADS : Scan(t)
    \/ \E t \in THREADS : Rank(t)
    \/ \E t \in THREADS : Leave(t)

SpecConc == InitConc /\ [][NextConc]_vars

(* Validation of feature files: ScenarioValidator.validate_file of          *)
(* validate.py and the MetricsLogger of metrics_logger.py. The validator's  *)
(* warnings are not part of the state: nothing here reads them.             *)

\* the most lines validate_file reads, over all its calls on one validator
MaxLines == 4

\* "\n".join(lines)
RECURSIVE JoinLines(_)
JoinLines(lines) ==
    IF lines = <<>> THEN <<>>
    ELSE IF Len(lines) = 1 THEN lines[1]
    ELSE lines[1] \o <<10>> \o JoinLines(Tail(lines))

\* content.split('\n') of the file written from the lines
SplitLines(file) == IF file = <<>> THEN << <<>> >> ELSE file

\* ScenarioValidator.__init__: self.stats
NoStats ==
    [total_steps |-> 0, valid_steps |-> 0, invalid_steps |-> 0, scenarios |-> 0, features |-> 0]

\* MetricsLogger.log_event(event_type, details), called behind 'if self.logger:', appending
\* only to an empty log
logged_first_only(log, logger, event_type, details) ==
    IF logger /\ log = <<>>
    THEN Append(log, [event_type |-> event_type, details |-> details])
    ELSE log

\* MetricsLogger.log_event(event_type, details), called behind 'if self.logger:'
logged(log, logger, event_type, details) ==
    IF logger THEN Append(log, [event_type |-> event_type, details |-> details]) ELSE log

\* self.errors.append(error) and the log_event call that follows it
Reported(v, logger, event_type, error) ==
    [v EXCEPT !.errors = Append(@, error),
              !.log = logged(@, logger, event_type, error)]

\* the errors of _check_headers, first_lines being '\n'.join(lines[:5])
header_errors(first_lines) ==
    (IF ~Contains(first_lines, <<35, 32, 101, 110, 99, 111, 100, 105, 110, 103, 58>> (* # encoding: *)) /\ ~Contains(first_lines, <<35, 32, 45, 42, 45, 32, 99, 111, 100, 105, 110, 103, 58>> (* # -*- coding: *))
     THEN << [line |-> 1, type |-> "header", details |-> "add_encoding"] >>
     ELSE <<>>)
    \o (IF ~Contains(first_lines, <<35, 32, 108, 97, 110, 103, 117, 97, 103, 101, 58>> (* # language: *))
        THEN << [line |-> 1, type |-> "header", details |-> "add_language"] >>
        ELSE <<>>)

\* _check_headers
check_headers(v, lines) ==
    [v EXCEPT !.errors = @ \o header_errors(
                  JoinLines(SubSeq(lines, 1, IF Len(lines) < 5 THEN Len(lines) ELSE 5)))]

\* how many of the lines, stripped, start with the prefix
RECURSIVE CountStarting(_, _)
CountStarting(lines, prefix) ==
    IF lines = <<>> THEN 0
    ELSE (IF StartsWithAt(Strip(Head(lines)), prefix, 1) THEN 1 ELSE 0)
         + CountStarting(Tail(lines), prefix)

\* _check_feature_block
check_feature_block(v, lines) ==
    IF CountStarting(lines, <<1060, 1091, 1085, 1082, 1094, 1080, 1086, 1085, 1072, 1083, 58>> (* Функционал: *)) = 0
    THEN [v EXCEPT !.stats.scenarios = @ + CountStarting(lines, <<1057, 1094, 1077, 1085, 1072, 1088, 1080, 1081, 58>> (* Сценарий: *)),
                   !.errors = Append(@, [line |-> 0, type |-> "structure",
                                         details |-> "structure"])]
    ELSE [v EXCEPT !.stats.features = @ + CountStarting(lines, <<1060, 1091, 1085, 1082, 1094, 1080, 1086, 1085, 1072, 1083, 58>> (* Функционал: *)),
                   !.stats.scenarios = @ + CountStarting(lines, <<1057, 1094, 1077, 1085, 1072, 1088, 1080, 1081, 58>> (* Сценарий: *))]

\* any(stripped.startswith(kw) for kw in self.KEYWORDS)
is_keyword_line(stripped) ==
    \E n \in 1..Len(KEYWORDS) : StartsWithAt(stripped, KEYWORDS[n], 1)

\* stripped.startswith(('Сценарий:', 'Контекст:', 'Функционал:'))
is_new_scenario(stripped) ==
    \/ StartsWithAt(stripped, <<1057, 1094, 1077, 1085, 1072, 1088, 1080, 1081, 58>> (* Сценарий: *), 1)
    \/ StartsWithAt(stripped, <<1050, 1086, 1085, 1090, 1077, 1082, 1089, 1090, 58>> (* Контекст: *), 1)
    \/ StartsWithAt(stripped, <<1060, 1091, 1085, 1082, 1094, 1080, 1086, 1085, 1072, 1083, 58>> (* Функционал: *), 1)

\* stripped.startswith('#')
is_comment(stripped) == StartsWithAt(stripped, <<35>>, 1)

\* stripped.startswith('|') or stripped.startswith('"""')
is_continuation(stripped) ==
    StartsWithAt(stripped, <<124>>, 1) \/ StartsWithAt(stripped, <<34, 34, 34>>, 1)

\* The counters of _validate_step, counting an unmatched step as both valid and invalid.
step_counted_twice(stats, found) ==
    IF found THEN [stats EXCEPT !.valid_steps = @ + 1]
    ELSE [stats EXCEPT !.valid_steps = @ + 1, !.invalid_steps = @ + 1]

\* self.stats['valid_steps'] += 1 / self.stats['invalid_steps'] += 1 of _validate_step
step_counted(stats, found) ==
    IF found THEN [stats EXCEPT !.valid_steps = @ + 1]
    ELSE [stats EXCEPT !.invalid_steps = @ + 1]

\* _validate_step from the resolution result on: the counters, the error and its event
step_recorded(v, logger, line_num, step, result) ==
    IF result.valid THEN [v EXCEPT !.stats = step_counted(@, TRUE)]
    ELSE Reported([v EXCEPT !.stats = step_counted(@, FALSE)], logger, "step_not_found",
                  [line |-> line_num, type |-> "step",
                   details |-> [result.error_info EXCEPT !.step = step]])

\* _validate_step(line_num, step) on the validator v = [stats, errors, log]. normalize_step
\* and StepParser.parse read step.split('\n')[0] only, so the step resolves as its first
\* line does; the error keeps the whole step.
validate_step_at(v, lib, ai_enhanced, logger, line_num, step) ==
    step_recorded(v, logger, line_num, step,
                  validate_step(lib.steps_normalized, ai_enhanced, lib.enable_semantic, {},
                                FirstLine(step)))

\* The flush of _check_steps: the step collected so far goes to _validate_step (here: is
\* added to the calls made), and the collection starts over. loop is the locals of
\* _check_steps [in_scenario, current_step_lines, current_step_start_line] and the calls
\* of _validate_step made so far, as [line, step].
flushed(loop) ==
    [loop EXCEPT !.calls = Append(@, [line |-> loop.current_step_start_line,
                                      step |-> JoinLines(loop.current_step_lines)]),
                 !.current_step_lines = <<>>]

\* the body of the loop of _check_steps after the flush, for line i
line_taken(loop, i, stripped) ==
    IF is_new_scenario(stripped)
    THEN [loop EXCEPT !.in_scenario = ~StartsWithAt(stripped, <<1060, 1091, 1085, 1082, 1094, 1080, 1086, 1085, 1072, 1083, 58>> (* Функционал: *), 1)]
    ELSE IF ~loop.in_scenario \/ is_comment(stripped) \/ stripped = <<>>
    THEN loop
    ELSE IF is_keyword_line(stripped)
    THEN [loop EXCEPT !.current_step_lines = <<stripped>>, !.current_step_start_line = i]
    ELSE IF loop.current_step_lines # <<>> /\ is_continuation(stripped)
    THEN [loop EXCEPT !.current_step_lines = Append(@, stripped)]
    ELSE loop

\* the body of the loop of _check_steps, for line i
line_checked(loop, i, stripped) ==
    IF loop.current_step_lines # <<>> /\ (is_keyword_line(stripped) \/ is_new_scenario(stripped))
    THEN line_taken(flushed(loop), i, stripped)
    ELSE line_taken(loop, i, stripped)

\* the loop of _check_steps from line i on, and the flush after it
RECURSIVE check_steps_calls(_, _, _)
check_steps_calls(lines, i, loop) ==
    IF i > Len(lines)
    THEN (IF loop.current_step_lines # <<>> THEN flushed(loop).calls ELSE loop.calls)
    ELSE check_steps_calls(lines, i + 1, line_checked(loop, i, Strip(lines[i])))

\* the steps of a file, as _check_steps splits it: its calls of _validate_step, in order
StepsOf(lines) ==
    check_steps_calls(lines, 1, [in_scenario |-> FALSE, current_step_lines |-> <<>>,
                                 current_step_start_line |-> 0, calls |-> <<>>])

\* self.stats['total_steps'] += 1; self._validate_step(...) for each of the calls, in order
RECURSIVE validate_steps(_, _, _, _, _)
validate_steps(v, lib, ai_enhanced, logger, calls) ==
    IF calls = <<>> THEN v
    ELSE validate_steps(
             validate_step_at([v EXCEPT !.stats.total_steps = @ + 1], lib, ai_enhanced,
                              logger, Head(calls).line, Head(calls).step),
             lib, ai_enhanced, logger, Tail(calls))

\* _check_steps
check_steps(v, lib, ai_enhanced, logger, lines) ==
    validate_steps(v, lib, ai_enhanced, logger, StepsOf(lines))

\* _check_quotes, from line i on
RECURSIVE check_quotes(_, _, _, _)
check_quotes(v, logger, lines, i) ==
    IF i > Len(lines) THEN v
    ELSE IF Contains(lines[i], <<39>>) /\ is_keyword_line(Strip(lines[i]))
    THEN check_quotes(Reported(v, logger, "auto_fix_suggestion",
                               [line |-> i, type |-> "syntax", details |-> "replace_quotes"]),
                      logger, lines, i + 1)
    ELSE check_quotes(v, logger, lines, i + 1)

\* validate_file: the validator after the file's lines went through its checks
\* (_check_variables adds warnings only)
validate_file(v, lib, ai_enhanced, logger, lines) ==
    check_quotes(
        check_steps(check_feature_block(check_headers(v, lines), lines),
                    lib, ai_enhanced, logger, lines),
        logger, lines, 1)

\* StepLibrary(library_path, enable_semantic=True) loaded; ScenarioValidator(library,
\* ai_enhanced=..., logger=...) constructed; no file written yet
InitFile ==
    /\ source = FILE_SOURCE
    /\ exited = FALSE
    /\ v_loaded = TRUE /\ enable_semantic = TRUE
    /\ steps = StepLibrary_load_library(source).steps
    /\ steps_normalized = StepLibrary_load_library(source).steps_normalized
    /\ s_loaded = FALSE /\ s_steps = <<>> /\ s_steps_normalized = <<>>
    /\ indexes_loaded = FALSE /\ category_index = <<>>
    /\ call = NoCall
    /\ f_lines = <<>> /\ f_read = 0
    /\ v_ai_enhanced \in BOOLEAN
    /\ v_logger \in BOOLEAN
    /\ v_stats = NoStats /\ v_errors = <<>> /\ v_log = <<>>
    /\ NormIdle /\ SemIdle /\ ConcIdle /\ WaitIdle

\* the author adds a line to the feature file
WriteLine(line) ==
    /\ f_read + Len(f_lines) < MaxLines
    /\ f_lines' = Append(f_lines, line)
    /\ UNCHANGED <<f_read, v_ai_enhanced, v_logger, v_stats, v_errors, v_log>>
    /\ UNCHANGED fileOthers

\* what validate_file leaves in the validator and in the log
Validated(after) ==
    /\ v_stats' = after.stats
    /\ v_errors' = after.errors
    /\ v_log' = after.log

\* ScenarioValidator.validate_file(filepath) on the file written; the next file is
\* written from scratch
ValidateFile ==
    /\ f_lines # <<>>
    /\ Validated(validate_file([stats |-> v_stats, errors |-> v_errors, log |-> v_log],
                               [steps_normalized |-> steps_normalized,
                                enable_semantic |-> enable_semantic],
                               v_ai_enhanced, v_logger, SplitLines(f_lines)))
    /\ f_read' = f_read + Len(f_lines)
    /\ f_lines' = <<>>
    /\ UNCHANGED <<v_ai_enhanced, v_logger>>
    /\ UNCHANGED fileOthers

NextFile ==
    \/ \E line \in FILE_LINES : WriteLine(line)
    \/ ValidateFile

SpecFile == InitFile /\ [][NextFile]_vars

(* Waiting for the external processor: wait_for_completion and              *)
(* run_agent_mode of form_context_cli.py. The processor (1C with             *)
(* FormContextCollector.epf) is not Python code: it writes                  *)
(* task.json.processing when it starts on the task and replaces it by        *)
(* task.json.completed or task.json.error when it ends. Time is counted in   *)
(* ticks of half a second, the shorter of the two sleeps. The function runs  *)
(* without delay: its checks take no time and its sleeps end on time.        *)

\* the largest timeout, in seconds
MaxTimeout == 32

\* ticks per second
TICKS_PER_SECOND == 2

\* the seconds wait_for_completion waits for .processing to appear
START_WAIT == 30

\* the timeouts of the model, in seconds
TIMEOUTS == {2, MaxTimeout}

\* no wait lasts longer
MaxClock == TICKS_PER_SECOND * (IF MaxTimeout > START_WAIT THEN MaxTimeout ELSE START_WAIT) + 2

\* (time.time() - start_time) < seconds
Before(seconds) == w_now < TICKS_PER_SECOND * seconds

\* the exit code run_agent_mode returns for the status of wait_for_completion
exit_code(status) ==
    IF status = "completed" THEN 0 ELSE IF status = "error" THEN 1 ELSE 2

\* task.json written, 1C launched in the background, wait_for_completion(task_file,
\* timeout) entered: start_time taken, no marker file yet
InitWait ==
    /\ w_timeout \in TIMEOUTS
    /\ w_now = 0
    /\ w_markers = {} /\ w_marked_at = -1
    /\ w_pc = "wait_start" /\ w_wake = 0
    /\ w_status = "" /\ w_exit = -1
    /\ NormIdle /\ LexIdle /\ SemIdle /\ ConcIdle /\ FileIdle

\* the processor starts on the task: task.json.processing appears
ProcessorStarts ==
    /\ w_markers = {}
    /\ w_markers' = {"processing"}
    /\ UNCHANGED <<w_timeout, w_now, w_marked_at, w_pc, w_wake, w_status, w_exit>>
    /\ UNCHANGED waitOthers

\* the processor ends: task.json.processing is replaced by .completed or by .error
ProcessorEnds(marker) ==
    /\ w_markers = {"processing"}
    /\ w_markers' = {marker}
    /\ w_marked_at' = w_now
    /\ UNCHANGED <<w_timeout, w_now, w_pc, w_wake, w_status, w_exit>>
    /\ UNCHANGED waitOthers

\* half a second passes while wait_for_completion is asleep
Tick ==
    /\ w_now < MaxClock
    /\ w_pc \in {"sleep_start", "sleep_done"} /\ w_now < w_wake
    /\ w_now' = w_now + 1
    /\ UNCHANGED <<w_timeout, w_markers, w_marked_at, w_pc, w_wake, w_status, w_exit>>
    /\ UNCHANGED waitOthers

\* return status, and run_agent_mode's exit code for it
Return(status) ==
    /\ w_pc' = "returned"
    /\ w_status' = status
    /\ w_exit' = exit_code(status)
    /\ UNCHANGED <<w_timeout, w_now, w_markers, w_marked_at, w_wake>>
    /\ UNCHANGED waitOthers

\* time.sleep(ticks / 2), then back to the head of the loop
Sleep(pc, ticks) ==
    /\ w_pc' = pc
    /\ w_wake' = w_now + ticks
    /\ UNCHANGED <<w_timeout, w_now, w_markers, w_marked_at, w_status, w_exit>>
    /\ UNCHANGED waitOthers

\* while not processing_file.exists() and (time.time() - start_time) < 30: time.sleep(0.5)
WaitForStart ==
    /\ w_pc = "wait_start"
    /\ IF "processing" \notin w_markers /\ Before(START_WAIT)
       THEN Sleep("sleep_start", 1)
       ELSE /\ w_pc' = "check_start"
            /\ UNCHANGED <<w_timeout, w_now, w_markers, w_marked_at, w_wake, w_status, w_exit>>
            /\ UNCHANGED waitOthers

\* if not processing_file.exists(): return "timeout"
CheckStarted ==
    /\ w_pc = "check_start"
    /\ IF "processing" \notin w_markers
       THEN Return("timeout")
       ELSE /\ w_pc' = "wait_done"
            /\ UNCHANGED <<w_timeout, w_now, w_markers, w_marked_at, w_wake, w_status, w_exit>>
            /\ UNCHANGED waitOthers

\* while (time.time() - start_time) < timeout: return "completed" or "error" by the marker
\* that exists, else time.sleep(1); after the loop return "timeout"
WaitForEnd ==
    /\ w_pc = "wait_done"
    /\ IF ~Before(w_timeout) THEN Return("timeout")
       ELSE IF "completed" \in w_markers THEN Return("completed")
       ELSE IF "error" \in w_markers THEN Return("error")
       ELSE Sleep("sleep_done", 2)

\* a time.sleep ends
Wake ==
    /\ w_pc \in {"sleep_start", "sleep_done"}
    /\ w_now >= w_wake
    /\ w_pc' = IF w_pc = "sleep_start" THEN "wait_start" ELSE "wait_done"
    /\ UNCHANGED <<w_timeout, w_now, w_markers, w_marked_at, w_wake, w_status, w_exit>>
    /\ UNCHANGED waitOthers

NextWait ==
    \/ ProcessorStarts
    \/ \E marker \in {"completed", "error"} : ProcessorEnds(marker)
    \/ Tick
    \/ WaitForStart
    \/ CheckStarted
    \/ WaitForEnd
    \/ Wake

SpecWait == InitWait /\ [][NextWait]_vars

(* Properties.                                                               *)

\* the true lexical similarity of two step texts: the ratio of their canonical forms
TrueRatio(a, b) == ratio_of[<<normalized_of[a], normalized_of[b]>>]

\* r1 > r2
RatioGT(r1, r2) == ~RatioGE(r2, r1)

IsResolution == call.op \in {"find_step", "find_step_with_semantic"}

\* the templates the last call suggested, in the order it returned them
SuggestedTexts ==
    IF call.op = "find_step" THEN call.result.suggestions
    ELSE IF call.op = "find_step_with_semantic"
    THEN [i \in 1..Len(call.result.suggestions) |-> call.result.suggestions[i].text]
    ELSE IF call.op = "search"
    THEN [i \in 1..Len(call.result) |-> call.result[i].step]
    ELSE <<>>

\* the templates of the loaded library, in the order of the library file
LibraryTexts ==
    IF v_loaded THEN steps ELSE [i \in 1..Len(s_steps) |-> s_steps[i].step]

\* the positions of the library whose template the last call could have returned: all of
\* them for a resolution, those that pass the category filter for a search
Eligible ==
    { p \in 1..Len(LibraryTexts) :
        \/ IsResolution
        \/ /\ call.op = "search"
           /\ (call.category = <<>> \/ s_steps[p].category = call.category)
           /\ (call.subcategory = <<>> \/ s_steps[p].subcategory = call.subcategory) }

PositionOf(list, x) == CHOOSE i \in 1..Len(list) : list[i] = x

\* the template loaded last among those of the given canonical form
LastLoaded(list, key) ==
    list[CHOOSE i \in 1..Len(list) :
            /\ normalized_of[list[i]] = key
            /\ \A j \in (i + 1)..Len(list) : normalized_of[list[j]] # key]

\* s with the contents of its double-quoted literals removed, from position i on
RECURSIVE BlankLiterals(_, _)
BlankLiterals(s, i) ==
    IF i > Len(s) THEN <<>>
    ELSE LET close == IF s[i] = 34 THEN IndexOf(s, 34, i + 1) ELSE 0
         IN  IF close # 0 THEN <<34, 34>> \o BlankLiterals(s, close + 1)
             ELSE <<s[i]>> \o BlankLiterals(s, i + 1)

\* the contents of the double-quoted literals of s hold no single quote and no newline,
\* from position i on
RECURSIVE PlainLiterals(_, _)
PlainLiterals(s, i) ==
    IF i > Len(s) THEN TRUE
    ELSE LET close == IF s[i] = 34 THEN IndexOf(s, 34, i + 1) ELSE 0
         IN  IF close # 0
             THEN /\ \A k \in (i + 1)..(close - 1) : s[k] \notin {39, 10}
                  /\ PlainLiterals(s, close + 1)
             ELSE PlainLiterals(s, i + 1)

\* a and b differ only in the contents of their double-quoted literals
DiffersOnlyInLiterals(a, b) ==
    /\ a # b
    /\ PlainLiterals(a, 1) /\ PlainLiterals(b, 1)
    /\ BlankLiterals(a, 1) = BlankLiterals(b, 1)

C2_NormalizeIsIdempotent ==
    n_pc = "twice" => n_twice = n_once

\* C3: the suggestion list of a resolution or a search is ordered by non-increasing true
\* similarity ratio, ties in library order, and no eligible template left out of it has
\* a strictly higher true ratio than one that is in it.
C3_RankedByTrueRatio ==
    call.op # "none" =>
        LET texts == SuggestedTexts
            lib == LibraryTexts
        IN  /\ \A i, j \in 1..Len(texts) :
                   i < j =>
                       /\ RatioGE(TrueRatio(call.step, texts[i]), TrueRatio(call.step, texts[j]))
                       /\ RatioGE(TrueRatio(call.step, texts[j]), TrueRatio(call.step, texts[i]))
                              => PositionOf(lib, texts[i]) < PositionOf(lib, texts[j])
            /\ \A p \in Eligible :
                   (\A i \in 1..Len(texts) : texts[i] # lib[p]) =>
                       \A i \in 1..Len(texts) :
                           ~RatioGT(TrueRatio(call.step, lib[p]), TrueRatio(call.step, texts[i]))

\* C4: a validator suggestion has a ratio above 0.7 (hence above the 0.3 of search) and
\* at most 5 are returned; a search result has a ratio above 0.3 and at most top_n are
\* returned.
C4_ThresholdsAndCounts ==
    LET texts == SuggestedTexts
    IN  /\ IsResolution =>
               /\ Len(texts) <= 5
               /\ \A i \in 1..Len(texts) :
                      /\ ExceedsTenths(TrueRatio(call.step, texts[i]), 7)
                      /\ ExceedsTenths(TrueRatio(call.step, texts[i]), 3)
        /\ call.op = "search" =>
               /\ Len(texts) <= call.top_n
               /\ \A i \in 1..Len(texts) : ExceedsTenths(TrueRatio(call.step, texts[i]), 3)

\* C4, its case: a resolution that returned 5 suggestions from a library in which more
\* than 5 canonical forms are above the threshold.
C4_CutAtFive ==
    /\ IsResolution
    /\ Len(call.result.suggestions) = 5
    /\ Cardinality({ k \in 1..Len(steps_normalized) :
           ExceedsTenths(ratio_of[<<normalized_of[call.step], steps_normalized[k].key>>], 7) }) > 5

\* C5: a search returns the same list whether or not the category index is loaded.
C5_IndexChangesNothing ==
    call.op = "search" =>
        call.result = search(s_steps_normalized, s_steps, ~indexes_loaded,
                             create_category_index(s_steps, <<>>, 1),
                             call.step, call.top_n, call.category, call.subcategory)

\* C6: find_step and find_step_with_semantic return the same found flag, the same exact
\* match and the same suggested templates in the same order.
C6_EnhancedAgreesWithBasic ==
    IsResolution =>
        LET basic == find_step(steps_normalized, call.step)
            enhanced == find_step_with_semantic(steps_normalized, enable_semantic, call.step)
        IN  /\ basic.found = enhanced.found
            /\ basic.exact_match = enhanced.exact_match
            /\ basic.suggestions
                   = [i \in 1..Len(enhanced.suggestions) |-> enhanced.suggestions[i].text]

\* C7: two steps of equal canonical form resolve, against the same library, to the same
\* found flag and the same matched template.
C7_ExactMatchIsCanonicalizationInvariant ==
    IsResolution =>
        \A other \in QUERIES :
            normalized_of[other] = normalized_of[call.step] =>
                /\ find_step(steps_normalized, other).found = call.result.found
                /\ find_step(steps_normalized, other).exact_match = call.result.exact_match

\* C7, its case: a step resolved as found while another step has its canonical form.
C7_FoundWithTwin ==
    /\ call.op = "find_step"
    /\ call.result.found
    /\ \E other \in QUERIES :
           other # call.step /\ normalized_of[other] = normalized_of[call.step]

\* C8: found is true iff the canonical form of the step is a key of the mapping; when
\* found the suggestion list is empty; when not found the exact match is the empty
\* string and the suggestions are what the similarity search finds (templates above
\* 0.7, some whenever there is one).
C8_FoundIffKey ==
    IsResolution =>
        /\ call.result.found <=> DictHas(steps_normalized, normalized_of[call.step])
        /\ call.result.found => call.result.suggestions = <<>>
        /\ ~call.result.found =>
               /\ call.result.exact_match = <<>>
               /\ \A i \in 1..Len(SuggestedTexts) :
                      /\ \E k \in 1..Len(steps_normalized) :
                             steps_normalized[k].value = SuggestedTexts[i]
                      /\ ExceedsTenths(TrueRatio(call.step, SuggestedTexts[i]), 7)
               /\ (SuggestedTexts = <<>>) <=>
                      ~ \E k \in 1..Len(steps_normalized) :
                            ExceedsTenths(ratio_of[<<normalized_of[call.step],
                                                     steps_normalized[k].key>>], 7)

\* C8, its case: a step not found, for which the similarity search returned templates.
C8_NotFoundWithSuggestions ==
    /\ IsResolution
    /\ ~call.result.found
    /\ call.result.suggestions # <<>>

\* C9 as stated: a step that differs from a library template only in the contents of its
\* double-quoted literals has the template's canonical form and resolves as an exact
\* match to that template.
C9_LiteralVariantMatchesItsTemplate ==
    IsResolution =>
        \A p \in 1..Len(steps) :
            DiffersOnlyInLiterals(call.step, steps[p]) =>
                /\ normalized_of[call.step] = normalized_of[steps[p]]
                /\ call.result.found
                /\ call.result.exact_match = steps[p]

\* C9 amended: such a step has the template's canonical form and resolves as an exact
\* match to the template loaded last among those of that canonical form.
C9_LiteralVariantMatchesLastLoaded ==
    IsResolution =>
        \A p \in 1..Len(steps) :
            DiffersOnlyInLiterals(call.step, steps[p]) =>
                /\ normalized_of[call.step] = normalized_of[steps[p]]
                /\ call.result.found
                /\ call.result.exact_match = LastLoaded(steps, normalized_of[steps[p]])

\* C9, its case: a step resolved as an exact match to another template than the one it
\* differs from only in a literal.
C9_LiteralVariantMatchesAnother ==
    /\ IsResolution
    /\ call.result.found
    /\ \E p \in 1..Len(steps) :
           /\ DiffersOnlyInLiterals(call.step, steps[p])
           /\ call.result.exact_match # steps[p]

\* C10: the canonical mapping holds, for each canonical form, the template loaded last
\* among those of that form, and an exact match returns it.
C10_LastWriteWins ==
    /\ v_loaded =>
           \A k \in 1..Len(steps_normalized) :
               steps_normalized[k].value = LastLoaded(steps, steps_normalized[k].key)
    /\ s_loaded =>
           \A k \in 1..Len(s_steps_normalized) :
               s_steps_normalized[k].value.step
                   = LastLoaded([i \in 1..Len(s_steps) |-> s_steps[i].step],
                                s_steps_normalized[k].key)
    /\ (IsResolution /\ call.result.found) =>
           call.result.exact_match = LastLoaded(steps, normalized_of[call.step])

\* C10, its case: an exact match on a canonical form that an earlier template of the
\* library has too.
C10_ExactMatchOnCollision ==
    /\ IsResolution
    /\ call.result.found
    /\ \E p \in 1..Len(steps) :
           /\ steps[p] # call.result.exact_match
           /\ normalized_of[steps[p]] = normalized_of[call.step]
           /\ p < PositionOf(steps, call.result.exact_match)

\* C11: a library file that holds well-formed data of neither shape yields no library,
\* empty or partial: once a tool has started on it, the tool has exited and nothing is
\* loaded.
C11_MalformedSourceIsFatal ==
    source.shape = "scalar" =>
        /\ ~v_loaded /\ ~s_loaded
        /\ steps = <<>> /\ steps_normalized = <<>>
        /\ s_steps = <<>> /\ s_steps_normalized = <<>>

\* the text and similarity of each suggestion, in order
Bare(suggestions) ==
    [i \in 1..Len(suggestions) |->
        [text |-> suggestions[i].text, similarity |-> suggestions[i].similarity]]

\* the suggestions the validator reported with the last step, none if it reported none
ReportedSuggestions ==
    IF call.op = "validate_step" /\ ~call.result.valid
          /\ "suggestions" \in DOMAIN call.result.error_info
    THEN call.result.error_info.suggestions
    ELSE <<>>

OriginalParsed == parse(JoinWords(m_original))
SuggestedParsed == parse(m_suggested)

\* C14: context agreement is true if neither step has a context, false if only the
\* suggested step has one, true if only the original has one, and with both present true
\* exactly when they are equal or form the pair ('в таблице', 'в табличной части') or
\* ('в форме', 'в окне'), in either order.
C14_ContextAgreement ==
    m_pc = "compared" =>
        LET orig == OriginalParsed.context
            sugg == SuggestedParsed.context
        IN  m_match.context_match
                <=> IF orig = <<>> /\ sugg = <<>> THEN TRUE
                    ELSE IF orig = <<>> THEN FALSE
                    ELSE IF sugg = <<>> THEN TRUE
                    ELSE \/ orig = sugg
                         \/ {orig, sugg} = { <<1074, 32, 1090, 1072, 1073, 1083, 1080, 1094, 1077>> (* в таблице *), <<1074, 32, 1090, 1072, 1073, 1083, 1080, 1095, 1085, 1086, 1081, 32, 1095, 1072, 1089, 1090, 1080>> (* в табличной части *) }
                         \/ {orig, sugg} = { <<1074, 32, 1092, 1086, 1088, 1084, 1077>> (* в форме *), <<1074, 32, 1086, 1082, 1085, 1077>> (* в окне *) }

\* C14, its case: the original is in a form, the suggestion in a window, and the two
\* contexts are found to agree.
C14_SynonymContextsAgree ==
    /\ m_pc = "compared"
    /\ OriginalParsed.context = <<1074, 32, 1092, 1086, 1088, 1084, 1077>> (* в форме *)
    /\ SuggestedParsed.context = <<1074, 32, 1086, 1082, 1085, 1077>> (* в окне *)
    /\ m_match.context_match

(* C15 *)

\* the agreement the claim states for one axis: value1 and value2 are the extracted
\* values, category1 and category2 the categories they resolve to
AxisAgreement(value1, value2, category1, category2) ==
    IF value1 = <<>> \/ value2 = <<>> THEN TRUE
    ELSE IF value1 = value2 THEN TRUE
    ELSE category1 = category2 /\ category1 # UNKNOWN

\* C15: on the action axis and on the element axis, agreement is true if either step
\* has an empty extracted value, else true if the values are equal, else true exactly
\* when both resolve to the same category other than unknown; a field element against
\* a button element gives no element agreement and an unsafe replacement.
C15_AxisAgreement ==
    m_pc = "compared" =>
        LET orig == OriginalParsed
            sugg == SuggestedParsed
        IN  /\ m_match.action_match
                   <=> AxisAgreement(orig.action, sugg.action,
                                     get_action_category(orig.action),
                                     get_action_category(sugg.action))
            /\ m_match.element_match
                   <=> AxisAgreement(orig.element_type, sugg.element_type,
                                     get_element_category(orig.element_type),
                                     get_element_category(sugg.element_type))
            /\ (/\ orig.element_type # <<>> /\ sugg.element_type # <<>>
                /\ get_element_category(orig.element_type) = <<1087, 1086, 1083, 1103>> (* поля *)
                /\ get_element_category(sugg.element_type) = <<1082, 1085, 1086, 1087, 1086, 1095, 1085, 1099, 1077>> (* кнопочные *))
                   => (~m_match.element_match /\ ~m_match.is_safe)

\* C15, its case: a field in the original against a button in the suggestion, every
\* other axis agreeing, and the replacement is not safe.
C15_FieldAgainstButton ==
    /\ m_pc = "compared"
    /\ OriginalParsed.element_type = <<1087, 1086, 1083, 1077>> (* поле *)
    /\ SuggestedParsed.element_type = <<1082, 1085, 1086, 1087, 1082, 1072>> (* кнопка *)
    /\ m_match.action_match /\ m_match.context_match /\ m_match.params_match
    /\ ~m_match.element_match /\ ~m_match.is_safe

(* C16, C17 *)

\* the weight of an axis in hundredths when it agrees, 0 when it does not
Weighed(agrees, weight) == IF agrees THEN weight ELSE 0

\* C16: the confidence is the sum of the weights of the agreeing axes, 0.40 for the
\* action, 0.40 for the element, 0.15 for the context and 0.05 for the parameters; it
\* lies in [0, 1], is 1.00 only when the four axes agree and 0.00 only when none does.
C16_ConfidenceIsWeightedSum ==
    /\ \A a, e, c, p \in BOOLEAN :
           LET confidence == calculate_confidence(a, e, c, p)
           IN  /\ confidence = Weighed(a, 40) + Weighed(e, 40) + Weighed(c, 15) + Weighed(p, 5)
               /\ confidence >= 0 /\ confidence <= 100
               /\ confidence = 100 <=> (a /\ e /\ c /\ p)
               /\ confidence = 0 <=> (~a /\ ~e /\ ~c /\ ~p)
    /\ m_pc = "compared" =>
           m_match.confidence = Weighed(m_match.action_match, 40)
                                + Weighed(m_match.element_match, 40)
                                + Weighed(m_match.context_match, 15)
                                + Weighed(m_match.params_match, 5)

\* C16, its case: a comparison in which only the element and the context agree, of
\* confidence 0.55.
C16_ElementAndContextOnly ==
    /\ m_pc = "compared"
    /\ ~m_match.action_match /\ m_match.element_match
    /\ m_match.context_match /\ ~m_match.params_match
    /\ m_match.confidence = 55

\* C17: for every assignment of the four agreement booleans, turning one of them from
\* false to true never decreases the confidence.
C17_ConfidenceIsMonotonic ==
    /\ \A a, e, c, p \in BOOLEAN :
           /\ calculate_confidence(FALSE, e, c, p) <= calculate_confidence(TRUE, e, c, p)
           /\ calculate_confidence(a, FALSE, c, p) <= calculate_confidence(a, TRUE, c, p)
           /\ calculate_confidence(a, e, FALSE, p) <= calculate_confidence(a, e, TRUE, p)
           /\ calculate_confidence(a, e, c, FALSE) <= calculate_confidence(a, e, c, TRUE)
    /\ m_pc = "compared" =>
           LET m == m_match
           IN  /\ m.confidence <= calculate_confidence(TRUE, m.element_match, m.context_match, m.params_match)
               /\ m.confidence <= calculate_confidence(m.action_match, TRUE, m.context_match, m.params_match)
               /\ m.confidence <= calculate_confidence(m.action_match, m.element_match, TRUE, m.params_match)
               /\ m.confidence <= calculate_confidence(m.action_match, m.element_match, m.context_match, TRUE)

\* C17, its case: a comparison whose parameters disagree, the confidence of which is
\* below the one the same comparison has with the parameters agreeing.
C17_ParamsDisagree ==
    /\ m_pc = "compared"
    /\ ~m_match.params_match
    /\ m_match.confidence < calculate_confidence(m_match.action_match, m_match.element_match,
                                                 m_match.context_match, TRUE)

(* C18 *)

HasCategory(step_info, category, subcategory) ==
    /\ step_info.category = category
    /\ subcategory = <<>> \/ step_info.subcategory = subcategory

\* the step_info's category, joined by '.' to its subcategory when it has one, is the
\* category filter joined by '.' to the subcategory filter when there is one
HasFilterKey(step_info, category, subcategory) ==
    (IF step_info.subcategory # <<>>
     THEN step_info.category \o <<46>> \o step_info.subcategory
     ELSE step_info.category)
        = (IF subcategory # <<>> THEN category \o <<46>> \o subcategory ELSE category)

\* the step_info a search result was made of
IsResultOf(result, step_info) ==
    /\ result.step = step_info.step /\ result.category = step_info.category
    /\ IF step_info.subcategory # <<>>
       THEN "subcategory" \in DOMAIN result /\ result.subcategory = step_info.subcategory
       ELSE "subcategory" \notin DOMAIN result

\* C19: a search with a category filter returns only templates whose category equals
\* the filter, and whose subcategory equals the subcategory filter when one is given;
\* when no template is such the result is the empty list.
C19_ResultsCarryTheFilter ==
    (call.op = "search" /\ call.category # <<>>) =>
        /\ \A i \in 1..Len(call.result) :
               \E k \in 1..Len(s_steps) :
                   /\ IsResultOf(call.result[i], s_steps[k])
                   /\ HasCategory(s_steps[k], call.category, call.subcategory)
        /\ (\A k \in 1..Len(s_steps) :
                ~HasCategory(s_steps[k], call.category, call.subcategory))
               => call.result = <<>>

\* C19 as the code has it: a search with a category filter returns only templates whose
\* category equals the filter (and whose subcategory equals the subcategory filter), or
\* whose category joined by '.' to its subcategory equals the filter string; when no
\* template is such the result is the empty list.
C19_ResultsCarryTheFilterOrItsKey ==
    (call.op = "search" /\ call.category # <<>>) =>
        /\ \A i \in 1..Len(call.result) :
               \E k \in 1..Len(s_steps) :
                   /\ IsResultOf(call.result[i], s_steps[k])
                   /\ \/ HasCategory(s_steps[k], call.category, call.subcategory)
                      \/ HasFilterKey(s_steps[k], call.category, call.subcategory)
        /\ (\A k \in 1..Len(s_steps) :
                /\ ~HasCategory(s_steps[k], call.category, call.subcategory)
                /\ ~HasFilterKey(s_steps[k], call.category, call.subcategory))
               => call.result = <<>>

\* C19, its case: with the index loaded, a search filtered by 'UI.Кнопки' returns a
\* template of category 'UI' and subcategory 'Кнопки'.
C19_FilterNamesCategoryAndSubcategory ==
    /\ call.op = "search" /\ indexes_loaded
    /\ call.category = <<85, 73, 46, 1050, 1085, 1086, 1087, 1082, 1080>> (* UI.Кнопки *) /\ call.subcategory = <<>>
    /\ call.result # <<>>
    /\ call.result[1].category = <<85, 73>> (* UI *)

(* C20 *)

\* the text _extract_action is given for a step: its first line, stripped, without the
\* Gherkin keyword, in lower case
ActionInput(step) == Lower(StripKeyword(Strip(FirstLine(step))))

\* the trigger phrase of a cell of the action table
TriggerPhrase(p) == StepParser_ACTIONS[p[1]].phrases[p[2]]

\* cell q comes before cell p in the order of the table
ComesBefore(q, p) == q[1] < p[1] \/ (q[1] = p[1] /\ q[2] < p[2])

\* the action is what the claim says of the text
IsActionOf(action, text) ==
    IF \E p \in Cells(StepParser_ACTIONS) : Contains(text, TriggerPhrase(p))
    THEN \E p \in Cells(StepParser_ACTIONS) :
             /\ action = TriggerPhrase(p)
             /\ Contains(text, TriggerPhrase(p))
             /\ \A q \in Cells(StepParser_ACTIONS) :
                    ComesBefore(q, p) => ~Contains(text, TriggerPhrase(q))
    ELSE IF text = <<>> \/ FirstWord(text) \in { <<1103>> (* я *), <<1074>> (* в *), <<1080, 1079>> (* из *), <<1091>> (* у *) }
    THEN action = <<>>
    ELSE action = FirstWord(text)

\* C20: the extracted action is the first trigger phrase, in the order of the action
\* table, that occurs in the step text; if none occurs it is the first
\* whitespace-delimited token, unless that token is 'я', 'в', 'из' or 'у' or the text is
\* empty, and then the action is empty.
C20_ActionExtraction ==
    m_pc = "compared" =>
        /\ IsActionOf(OriginalParsed.action, ActionInput(JoinWords(m_original)))
        /\ IsActionOf(SuggestedParsed.action, ActionInput(m_suggested))

\* C20, its case: 'ввожу' comes first in the text and 'нажимаю' first in the table, and
\* the action is 'нажимаю'.
C20_TableOrderBeatsTextOrder ==
    /\ m_pc = "compared"
    /\ m_original[1] = <<1074, 1074, 1086, 1078, 1091>> (* ввожу *) /\ Len(m_original) >= 2 /\ m_original[2] = <<1085, 1072, 1078, 1080, 1084, 1072, 1102>> (* нажимаю *)
    /\ OriginalParsed.action = <<1085, 1072, 1078, 1080, 1084, 1072, 1102>> (* нажимаю *)

(* C21 *)

\* some trigger phrase of the c-th category of the element table occurs in the text
CategoryOccurs(c, text) ==
    \E k \in 1..Len(ELEMENTS[c].phrases) : Contains(text, ELEMENTS[c].phrases[k])

\* the representative the claim names for the c-th category of the element table
Representative(c, text) ==
    IF c = 1 THEN <<1082, 1085, 1086, 1087, 1082, 1072>> (* кнопка *)
    ELSE IF c = 2 THEN <<1087, 1086, 1083, 1077>> (* поле *)
    ELSE IF c = 3
         THEN IF Contains(text, <<1074, 1099, 1087, 1072, 1076, 1072, 1102, 1097, 1080, 1081>> (* выпадающий *)) \/ Contains(text, <<1074, 1099, 1087, 1072, 1076, 1072, 1102, 1097, 1077, 1075, 1086>> (* выпадающего *))
              THEN <<1074, 1099, 1087, 1072, 1076, 1072, 1102, 1097, 1080, 1081, 32, 1089, 1087, 1080, 1089, 1086, 1082>> (* выпадающий список *)
              ELSE <<1089, 1087, 1080, 1089, 1086, 1082>> (* список *)
    ELSE IF c = 4 THEN <<1075, 1080, 1087, 1077, 1088, 1089, 1089, 1099, 1083, 1082, 1072>> (* гиперссылка *)
    ELSE IF c = 5 THEN <<1090, 1072, 1073, 1083, 1080, 1094, 1072>> (* таблица *)
    ELSE <<1092, 1086, 1088, 1084, 1072>> (* форма *)

\* the element type is what the claim says of the text
IsElementOf(element, text) ==
    /\ element \in { <<>>, <<1082, 1085, 1086, 1087, 1082, 1072>> (* кнопка *), <<1087, 1086, 1083, 1077>> (* поле *), <<1074, 1099, 1087, 1072, 1076, 1072, 1102, 1097, 1080, 1081, 32, 1089, 1087, 1080, 1089, 1086, 1082>> (* выпадающий список *), <<1089, 1087, 1080, 1089, 1086, 1082>> (* список *),
                      <<1075, 1080, 1087, 1077, 1088, 1089, 1089, 1099, 1083, 1082, 1072>> (* гиперссылка *), <<1090, 1072, 1073, 1083, 1080, 1094, 1072>> (* таблица *), <<1092, 1086, 1088, 1084, 1072>> (* форма *) }
    /\ element = <<>> <=> ~ \E c \in 1..6 : CategoryOccurs(c, text)
    /\ \A c \in 1..6 :
           (CategoryOccurs(c, text) /\ \A b \in 1..(c - 1) : ~CategoryOccurs(b, text))
               => element = Representative(c, text)

ParamsInput(step) == StripKeyword(Strip(FirstLine(step)))

\* C22: the params of a parsed step are its literal and variable tokens in the order in
\* which they appear in the text, duplicates included, one entry per occurrence.
C22_ParamsInTextOrder ==
    m_pc = "compared" =>
        /\ OriginalParsed.params
               = extract_params_in_text_order(ParamsInput(JoinWords(m_original)))
        /\ SuggestedParsed.params = extract_params_in_text_order(ParamsInput(m_suggested))

\* the params of a text, as the code orders them: the contents of the double-quoted
\* literals, then of the single-quoted literals, then the variables, each group in the
\* order of the text
GroupedParams(text) ==
    FindQuoted(text, 34, 1) \o FindQuoted(text, 39, 1) \o FindVariables(text, 1)

\* C22 as the code has it: the params are the double-quoted literals, then the
\* single-quoted literals, then the variables, each group in the order of the text and
\* with its duplicates; a variable inside a literal is listed in both groups.
C22_ParamsGroupedByKind ==
    m_pc = "compared" =>
        /\ OriginalParsed.params = GroupedParams(ParamsInput(JoinWords(m_original)))
        /\ SuggestedParsed.params = GroupedParams(ParamsInput(m_suggested))

\* C22, its case: a single-quoted literal precedes a double-quoted one that holds a
\* variable; the params list the double-quoted literal first and the variable twice.
C22_LaterLiteralListedFirst ==
    /\ m_pc = "compared"
    /\ SuggestedParsed.params = << <<36, 1047, 1085, 1072, 1095, 1077, 1085, 1080, 1077, 36>> (* $Значение$ *), <<1048, 1084, 1103>> (* Имя *), <<36, 1047, 1085, 1072, 1095, 1077, 1085, 1080, 1077, 36>> (* $Значение$ *) >>

(* C24 *)

\* the canonical forms a resolution or search call compares its query with: the keys of
\* the mapping of the loaded library
ComparedForms ==
    { steps_normalized[i].key : i \in 1..Len(steps_normalized) }
        \cup { s_steps_normalized[i].key : i \in 1..Len(s_steps_normalized) }

\* C24: the similarity ratio of a query and a template is the same in both directions,
\* lies between 0 and 1, and is 1 for a string and itself.
C24_RatioIsSymmetricAndBounded ==
    call # NoCall =>
        \A b \in ComparedForms :
            LET a == normalized_of[call.step]
                r == ratio_of[<<a, b>>]
            IN  /\ r.num * ratio_of[<<b, a>>].den = ratio_of[<<b, a>>].num * r.den
                /\ r.num >= 0 /\ r.num <= r.den
                /\ ratio_of[<<a, a>>].num = ratio_of[<<a, a>>].den
                /\ ratio_of[<<b, b>>].num = ratio_of[<<b, b>>].den

(* C25 *)

\* C25: a replacement is safe only if the action agrees, the element agrees, and the
\* context agrees or the original has no context.
C25_SafeOnlyIfContextAgrees ==
    (m_pc = "compared" /\ m_match.is_safe) =>
        /\ m_match.action_match /\ m_match.element_match
        /\ m_match.context_match \/ OriginalParsed.context = <<>>

(* C26 *)

\* the suggestions or similar steps the validator reported with the last step, as the
\* list of their verdicts: TRUE for a suggestion found safe, FALSE for one found unsafe
\* or carrying no verdict
ReportedVerdicts ==
    LET info == call.result.error_info
    IN  IF "suggestions" \in DOMAIN info
        THEN [i \in 1..Len(info.suggestions) |->
                 /\ "semantic_match" \in DOMAIN info.suggestions[i]
                 /\ info.suggestions[i].semantic_match.is_safe]
        ELSE IF "similar_steps" \in DOMAIN info
        THEN [i \in 1..Len(info.similar_steps) |-> FALSE]
        ELSE <<>>

\* C26: an unmatched step is 'critical' when it has no suggestions; in AI-enhanced mode
\* it is 'semantic_check_required' exactly when one of its suggestions has the verdict
\* is_safe = true, and 'critical' otherwise; in basic mode it is
\* 'semantic_check_required' whenever it has suggestions.
C26_SeverityOfUnmatchedStep ==
    (call.op = "validate_step" /\ ~call.result.valid) =>
        LET severity == call.result.error_info.severity
            verdicts == ReportedVerdicts
        IN  /\ severity \in {"critical", "semantic_check_required"}
            /\ verdicts = <<>> => severity = "critical"
            /\ call.ai_enhanced =>
                   (severity = "semantic_check_required"
                        <=> \E i \in 1..Len(verdicts) : verdicts[i])
            /\ (~call.ai_enhanced /\ verdicts # <<>>) => severity = "semantic_check_required"

\* C26, its case: in AI-enhanced mode every suggestion of the step was analysed and
\* found unsafe, and the step is critical.
C26_AllSuggestionsUnsafe ==
    /\ call.op = "validate_step" /\ ~call.result.valid
    /\ call.ai_enhanced /\ enable_semantic /\ call.raising = {}
    /\ ReportedVerdicts # <<>>
    /\ \A i \in 1..Len(ReportedVerdicts) :
           /\ "semantic_match" \in DOMAIN call.result.error_info.suggestions[i]
           /\ ~ReportedVerdicts[i]
    /\ call.result.error_info.severity = "critical"


\* a step that is not in the library: its canonical form is not a key of the library
Unmatched(step) == ~DictHas(steps_normalized, normalize_step(step))

\* the suggestion list resolution computes for a step: the annotated suggestions of the
\* enhanced resolution, or the similar templates of the basic one
ComputedSuggestions(step) ==
    IF v_ai_enhanced /\ enable_semantic
    THEN find_step_with_semantic(steps_normalized, enable_semantic, FirstLine(step)).suggestions
    ELSE find_step(steps_normalized, FirstLine(step)).suggestions

\* the suggestion list an event carries: 'suggestions' in the enhanced mode, 'similar_steps'
\* in the basic one, neither when the list is empty
CarriedSuggestions(event) ==
    IF "suggestions" \in DOMAIN event.details.details
    THEN event.details.details.suggestions
    ELSE IF "similar_steps" \in DOMAIN event.details.details
    THEN event.details.details.similar_steps
    ELSE <<>>

\* what a 'step_not_found' event says: the line, the step and the suggestion list
Said(event) ==
    [line |-> event.details.line, step |-> event.details.details.step,
     suggestions |-> CarriedSuggestions(event)]

IsStepNotFound(event) == event.event_type = "step_not_found"

\* the 'step_not_found' events among those from position n + 1 of the log on
StepEventsAfter(log, n) ==
    LET events == SelectSeq(SubSeq(log, n + 1, Len(log)), IsStepNotFound)
    IN  [k \in 1..Len(events) |-> Said(events[k])]

\* the events the unmatched steps among the calls are due, in order
RECURSIVE DueEvents(_)
DueEvents(calls) ==
    IF calls = <<>> THEN <<>>
    ELSE (IF Unmatched(Head(calls).step)
          THEN << [line |-> Head(calls).line, step |-> Head(calls).step,
                   suggestions |-> ComputedSuggestions(Head(calls).step)] >>
          ELSE <<>>) \o DueEvents(Tail(calls))

ErrorsOfType(type) == Cardinality({k \in 1..Len(v_errors) : v_errors[k].type = type})

\* C27: after any sequence of validate_file calls on one validator, total_steps is the sum
\* of valid_steps and invalid_steps, and the errors of type 'step' are as many as
\* invalid_steps: every counted step is classified once, as valid or as invalid.
C27_CountersAgree ==
    /\ v_stats.total_steps = v_stats.valid_steps + v_stats.invalid_steps
    /\ ErrorsOfType("step") = v_stats.invalid_steps

\* two files were validated by one validator (each lacks both headers), one step was
\* found and one was not
C27_TwoFilesCounted ==
    /\ f_lines = <<>> /\ ErrorsOfType("header") = 4
    /\ v_stats.valid_steps = 1 /\ v_stats.invalid_steps = 1

\* The line numbers of the keyword lines that start a step, from line i on: the keyword
\* lines inside a 'Сценарий:'/'Контекст:' block that are not in the body of a docstring
\* (between the '"""' that follows a step and the next '"""'). in_step: a step is being
\* collected.
RECURSIVE StepStarts(_, _, _, _, _)
StepStarts(lines, i, in_scenario, in_step, in_docstring) ==
    IF i > Len(lines) THEN <<>>
    ELSE IF StartsWithAt(Strip(lines[i]), <<34, 34, 34>>, 1)
    THEN StepStarts(lines, i + 1, in_scenario, in_step, in_step /\ ~in_docstring)
    ELSE IF in_docstring
    THEN StepStarts(lines, i + 1, in_scenario, in_step, TRUE)
    ELSE IF is_new_scenario(Strip(lines[i]))
    THEN StepStarts(lines, i + 1, ~StartsWithAt(Strip(lines[i]), <<1060, 1091, 1085, 1082, 1094, 1080, 1086, 1085, 1072, 1083, 58>> (* Функционал: *), 1),
                    FALSE, FALSE)
    ELSE IF in_scenario /\ is_keyword_line(Strip(lines[i]))
    THEN <<i>> \o StepStarts(lines, i + 1, in_scenario, TRUE, FALSE)
    ELSE StepStarts(lines, i + 1, in_scenario, in_step, FALSE)

\* the line numbers validate_file reports its steps with
ValidatedAt(lines) == [k \in 1..Len(StepsOf(lines)) |-> StepsOf(lines)[k].line]

\* C28: a multi-line step inside a scenario is validated as exactly one step, reported
\* with the line number of its keyword line: its table rows and the lines of its
\* docstring, body included, start no step and add nothing to total_steps, and no line
\* outside a 'Сценарий:'/'Контекст:' block is validated as a step.
C28_MultiLineStepIsOneStep ==
    [][(f_lines # <<>> /\ f_lines' = <<>>)
       => /\ ValidatedAt(SplitLines(f_lines))
                = StepStarts(SplitLines(f_lines), 1, FALSE, FALSE, FALSE)
          /\ v_stats'.total_steps
                = v_stats.total_steps
                  + Len(StepStarts(SplitLines(f_lines), 1, FALSE, FALSE, FALSE))]_vars

\* the marker exists, written by the processor before the timeout expired
MarkedInTime(marker) ==
    marker \in w_markers /\ w_marked_at >= 0 /\ w_marked_at < TICKS_PER_SECOND * w_timeout

\* C29: wait_for_completion reports the outcome of the processor under every interleaving
\* of the processor's marker transitions with the polling: when it returns, if .completed
\* exists and was written before the timeout expired it returns 'completed', if .error
\* does it returns 'error', and never 'timeout'.
C29_OutcomeIsReported ==
    [][(w_pc # "returned" /\ w_pc' = "returned")
       => /\ MarkedInTime("completed") => w_status' = "completed"
          /\ MarkedInTime("error") => w_status' = "error"]_vars

\* the category of a cell of the action table
CategoryOfCell(p) == StepParser_ACTIONS[p[1]].category

\* cell p alone triggers in the text: every trigger phrase that occurs in it is of p's
\* category or a part of p's phrase
TriggersAlone(p, text) ==
    /\ Contains(text, TriggerPhrase(p))
    /\ \A q \in Cells(StepParser_ACTIONS) :
           Contains(text, TriggerPhrase(q))
               => CategoryOfCell(q) = CategoryOfCell(p)
                  \/ Contains(TriggerPhrase(p), TriggerPhrase(q))

\* the step is parsed with an action of the category of every cell that alone triggers in it
ExtractsCategory(step) ==
    \A p \in Cells(StepParser_ACTIONS) :
        TriggersAlone(p, ActionInput(step))
            => get_action_category(parse(step).action) = CategoryOfCell(p)

\* C30: every category of the action table is reachable by extraction: a step with a
\* trigger phrase of a category, the selection category ('выбираю из', 'выбираю по',
\* 'выбираю точное') included, is parsed with an action whose get_action_category is
\* that category, so that a selection step and a click step ('выбираю' alone) differ on
\* the action axis.
C30_EveryCategoryIsExtracted ==
    m_pc = "compared" =>
        /\ ExtractsCategory(JoinWords(m_original))
        /\ ExtractsCategory(m_suggested)
====
